---- MODULE Spec2Model ----
(***************************************************************************)
(* The Sentinel-2 EO workflow: configuration loading, quality assessment,   *)
(* scene filtering, vegetation extraction from the SCL band and from NDVI,  *)
(* and EOWorkflow.perform, which calls the stages one after the other.      *)
(*                                                                          *)
(* Python values are modelled as follows.  A list is a sequence, read with  *)
(* 0-based indices through At and Slice.  A dict is the sequence of its     *)
(* <<key, value>> items in insertion order.  A float that the code obtains  *)
(* by dividing two pixel counts is the exact fraction <<num, den>>, compared*)
(* by cross-multiplication.  A call yields a record whose status is "ok"    *)
(* (with the returned value) or the name of the exception it raises, and    *)
(* whose stdout lists what the call printed.                                *)
(***************************************************************************)
EXTENDS Integers, Sequences, FiniteSets, TLC

VARIABLES pc, data_set, quality_report, validity_threshold, coverage_threshold,
          aggregation, verbose, ret, pixel_size,
          config_dir, search_config, load_config, filter_config, stac_items,
          clipped_data_set, filtered_data_set, time_series, calls,
          assess_valid_classes, scene_locals

\* the state of a run of EOWorkflow.perform: the configuration files, the fields
\* of the workflow object, the locals of perform, and the stage calls made
workflow_vars == <<config_dir, search_config, load_config, filter_config, stac_items,
                   clipped_data_set, filtered_data_set, time_series, calls>>

\* the valid_classes argument of a call of the assessor, and the locals of the
\* loop body of the assessor, one set for each scene
scene_vars == <<assess_valid_classes, scene_locals>>

vars == <<pc, data_set, quality_report, validity_threshold, coverage_threshold,
          aggregation, verbose, ret, pixel_size, workflow_vars, scene_vars>>

-----------------------------------------------------------------------------
(* Bounds of the model *)

\* longest time axis of a dataset handed to the filter
MaxT == 2
\* most pixel cells (time x y x) of a dataset given to the assessor
MaxCells == 3
\* most records of a quality report handed to the filter
MaxReport == 2
\* a pixel value that is none of the SCL codes 0..11
NoSclCode == 12

-----------------------------------------------------------------------------
(* Python helpers *)

None == "None"

\* list[i]
At(list, i) == list[i + 1]

\* list[a:b]
Slice(list, a, b) ==
    LET hi == IF b < Len(list) THEN b ELSE Len(list)
    IN  IF a >= hi THEN <<>> ELSE SubSeq(list, a + 1, hi)

\* sum(list)
RECURSIVE sum(_)
sum(list) == IF list = <<>> THEN 0 ELSE Head(list) + sum(Tail(list))

\* range(a, b)
range(a, b) == [i \in 1..(IF b > a THEN b - a ELSE 0) |-> a + i - 1]

\* sorted(set of ints)
RECURSIVE sorted(_)
sorted(S) ==
    IF S = {} THEN <<>>
    ELSE LET m == CHOOSE v \in S : \A w \in S : v <= w
         IN  <<m>> \o sorted(S \ {m})

SeqToSet(s) == {s[i] : i \in DOMAIN s}

\* exact fractions standing for the floats the code computes
Frac(n, d) == <<n, d>>
Zero == Frac(0, 1)
One == Frac(1, 1)
\* the outcome of a division by zero: no fraction has denominator 0
DivFault == Frac(0, 0)
IsFault(q) == q[2] = 0

\* a / b
TrueDiv(a, b) == IF b = 0 THEN DivFault ELSE Frac(a, b)

\* 1 - q
OneMinus(q) == IF IsFault(q) THEN q ELSE Frac(q[2] - q[1], q[2])

\* q >= r on fractions with positive denominators
GreaterEq(q, r) == q[1] * r[2] >= r[1] * q[2]

\* dict.get(key, default) and "key in dict" on a dict with string keys
dict_get(d, key, default) == IF key \in DOMAIN d THEN d[key] ELSE default

\* the keys of a quality report: Python ints, or a key that is no int
IntKey(i) == [int |-> TRUE, v |-> i]
StrKey == [int |-> FALSE, v |-> 0]

\* a line printed with the [INFO] prefix
Info(text) == [kind |-> "INFO", text |-> text]

\* the two ways a call ends
Return(value, out) == [status |-> "ok", msg |-> "", value |-> value, stdout |-> out]
Raise(exception, msg, out) ==
    [status |-> exception, msg |-> msg, value |-> None, stdout |-> out]

-----------------------------------------------------------------------------
(* Datasets *)

\* the pixel values of the model: no data (0), vegetation (4), water (6), the
\* cloud codes 7 to 10, snow (11), and a value that is no SCL code
PixelValues == {0, 4, 6, 7, 8, 9, 10, 11, NoSclCode}

\* all rows x cols grids of pixel values
Grids(rows, cols) == [1..rows -> [1..cols -> PixelValues]]

\* an xarray.Dataset with an scl band over (time, y, x)
Dataset(t, rows, cols, scl) ==
    [type |-> "Dataset", bands |-> {"scl"}, dims |-> <<"time", "y", "x">>,
     sizes |-> [time |-> t, y |-> rows, x |-> cols],
     time |-> range(0, t), scl |-> scl]

\* inputs that fail the validation at the head of each stage
NotADataset ==
    [type |-> "other", bands |-> {}, dims |-> <<>>,
     sizes |-> [time |-> 0, y |-> 0, x |-> 0], time |-> <<>>, scl |-> <<>>]
NoSclBand ==
    [type |-> "Dataset", bands |-> {"red"}, dims |-> <<>>,
     sizes |-> [time |-> 0, y |-> 0, x |-> 0], time |-> <<>>, scl |-> <<>>]
NoTimeDim ==
    [type |-> "Dataset", bands |-> {"scl"}, dims |-> <<"y", "x">>,
     sizes |-> [time |-> 0, y |-> 1, x |-> 1], time |-> <<>>, scl |-> <<>>]
Malformed == {NotADataset, NoSclBand, NoTimeDim}

\* numpy's "not a time" value of a time coordinate
NaT == -1

\* a dataset whose scl band lies over (time, y) only: its scenes are 1-D
FlatScl ==
    [type |-> "Dataset", bands |-> {"scl"}, dims |-> <<"time", "y">>,
     sizes |-> [time |-> 2, y |-> 1, x |-> 0],
     time |-> range(0, 2), scl |-> <<<<4>>, <<4>>>>]

\* the scene of the worked example: 100 pixels in one row, 80 of code 4, 5 of
\* code 7, and none of any other code in 0..11
ExampleScene ==
    <<[x \in 1..100 |-> IF x <= 80 THEN 4 ELSE IF x <= 85 THEN 7 ELSE NoSclCode]>>

Shapes ==
    {s \in (0..MaxCells) \X (0..MaxCells) \X (0..MaxCells) :
        /\ s[1] * s[2] * s[3] <= MaxCells
        /\ (s[1] * s[2] * s[3] = 0) => (s[1] + s[2] + s[3] <= 2)}

\* variant: the first slice, whatever the index
isel_first_scene(ds, scene_id) ==
    [dims |-> Tail(ds.dims), time |-> At(ds.time, 0), values |-> At(ds.scl, 0)]

\* scl.isel(time=scene_id) for a valid index
isel_scene(ds, scene_id) ==
    [dims |-> Tail(ds.dims), time |-> At(ds.time, scene_id),
     values |-> At(ds.scl, scene_id)]

\* values.ravel(): the rows of the grid one after the other
RECURSIVE ravel(_)
ravel(grid) == IF grid = <<>> THEN <<>> ELSE Head(grid) \o ravel(Tail(grid))

\* np.count_nonzero(values == cls)
count_nonzero_eq(values, cls) == Cardinality({i \in DOMAIN values : values[i] = cls})

-----------------------------------------------------------------------------
(* util.calculate_scl_histogram *)

default_classes == range(0, 12)

calculate_scl_histogram(scl_scene, valid_classes) ==
    IF Len(scl_scene.dims) # 2
    THEN [status |-> "ValueError", classes |-> <<>>, frequencies |-> <<>>]
    ELSE LET values == ravel(scl_scene.values)
             classes == sorted(SeqToSet(valid_classes))
         IN  [status |-> "ok", classes |-> classes,
              frequencies |-> [k \in DOMAIN classes |-> count_nonzero_eq(values, classes[k])]]

-----------------------------------------------------------------------------
(* quality_sentinel_2.assess_sentinel2_quality *)

total_pixels_of(frequencies) == sum(frequencies)

\* variant: the sum over all of frequencies, class 0 included
valid_pixels_with_no_data(frequencies) == sum(frequencies)

valid_pixels_of(frequencies) == sum(Slice(frequencies, 1, Len(frequencies)))

\* variant: the division without the "if total_pixels" guard
valid_ratio_unguarded(valid_pixels, total_pixels) == TrueDiv(valid_pixels, total_pixels)

\* valid_pixels / total_pixels if total_pixels else 0
valid_ratio_of(valid_pixels, total_pixels) ==
    IF total_pixels # 0 THEN TrueDiv(valid_pixels, total_pixels) ELSE Zero

\* variant: the slice frequencies[7:10], which leaves thin cirrus out
cloud_pixels_without_cirrus(frequencies) == sum(Slice(frequencies, 7, 10))

\* sum(frequencies[7:11])
cloud_pixels_of(frequencies) == sum(Slice(frequencies, 7, 11))

\* the first assignment of coverage
coverage_ratio(cloud_pixels, frequencies) ==
    IF At(frequencies, 4) # 0
    THEN OneMinus(TrueDiv(cloud_pixels, At(frequencies, 4)))
    ELSE Zero

\* variant: the first assignment without the "if frequencies[4]" guard
coverage_unguarded(cloud_pixels, frequencies) ==
    LET coverage == OneMinus(TrueDiv(cloud_pixels, At(frequencies, 4)))
    IN  IF IsFault(coverage) THEN coverage
        ELSE IF cloud_pixels < At(frequencies, 4) THEN coverage ELSE Zero

\* variant: the first assignment alone, never reset to 0
coverage_unclamped(cloud_pixels, frequencies) == coverage_ratio(cloud_pixels, frequencies)

\* both assignments of coverage, one after the other
coverage_of(cloud_pixels, frequencies) ==
    LET coverage == coverage_ratio(cloud_pixels, frequencies)
    IN  IF IsFault(coverage) THEN coverage
        ELSE IF cloud_pixels < At(frequencies, 4) THEN coverage ELSE Zero

strftime(timestamp, date_only) ==
    <<IF date_only THEN "%Y-%m-%d" ELSE "%Y-%m-%dT%H:%M:%S", timestamp>>

\* one pass of the loop body: the locals of the scene, or the exception raised
assess_scene(scl_scene, aggregated) ==
    LET h == calculate_scl_histogram(scl_scene, default_classes)
    IN  IF h.status # "ok" THEN [status |-> h.status]
        ELSE LET frequencies == h.frequencies
                 total_pixels == total_pixels_of(frequencies)
                 valid_pixels == valid_pixels_of(frequencies)
                 valid_ratio == valid_ratio_of(valid_pixels, total_pixels)
                 cloud_pixels == cloud_pixels_of(frequencies)
                 coverage == coverage_of(cloud_pixels, frequencies)
             IN  IF IsFault(valid_ratio) \/ IsFault(coverage)
                 THEN [status |-> "ZeroDivisionError"]
                 ELSE IF scl_scene.time = NaT
                 THEN [status |-> "ValueError"]
                 ELSE [status |-> "ok",
                       line |-> [kind |-> "scene",
                                 timestamp_str |-> strftime(scl_scene.time, aggregated),
                                 total_pixels |-> total_pixels,
                                 valid_pixels |-> valid_pixels,
                                 valid_ratio |-> valid_ratio,
                                 cloud_pixels |-> cloud_pixels,
                                 coverage |-> coverage],
                       record |-> [total_pixels |-> total_pixels,
                                   valid_pixels |-> valid_pixels,
                                   valid_ratio |-> valid_ratio,
                                   coverage |-> coverage]]

\* variant: a loop that skips a scene whose assessment fails and goes on
RECURSIVE assess_loop_skipping(_, _, _, _, _, _)
assess_loop_skipping(ds, scene_id, aggregated, verb, report, out) ==
    IF scene_id >= ds.sizes.time
    THEN Return(report, Append(out, Info("Generating Quality Report Successful.")))
    ELSE LET s == assess_scene(isel_scene(ds, scene_id), aggregated)
         IN  IF s.status # "ok"
             THEN assess_loop_skipping(ds, scene_id + 1, aggregated, verb, report, out)
             ELSE assess_loop_skipping(ds, scene_id + 1, aggregated, verb,
                                       Append(report, <<IntKey(scene_id), s.record>>),
                                       IF verb THEN Append(out, s.line) ELSE out)

\* the loop over range(scl.sizes["time"]) from scene_id on
RECURSIVE assess_loop(_, _, _, _, _, _)
assess_loop(ds, scene_id, aggregated, verb, report, out) ==
    IF scene_id >= ds.sizes.time
    THEN Return(report, Append(out, Info("Generating Quality Report Successful.")))
    ELSE LET s == assess_scene(isel_scene(ds, scene_id), aggregated)
         IN  IF s.status # "ok"
             THEN Raise(s.status, "scene", out)
             ELSE assess_loop(ds, scene_id + 1, aggregated, verb,
                              Append(report, <<IntKey(scene_id), s.record>>),
                              IF verb THEN Append(out, s.line) ELSE out)

\* the default of the valid_classes parameter
default_valid_classes == range(1, 12)

\* valid_classes is a parameter that the body never reads
assess_sentinel2_quality(ds, valid_classes, aggregated, verb) ==
    LET out == <<Info("Generating Quality Report...")>>
    IN  IF ds.type # "Dataset"
        THEN Raise("TypeError", "Input must be an xarray.Dataset.", out)
        ELSE IF "scl" \notin ds.bands
        THEN Raise("ValueError", "Dataset does not contain a 'scl' band.", out)
        ELSE IF "time" \notin SeqToSet(ds.dims)
        THEN Raise("ValueError", "SCL input must have a 'time' dimension.", out)
        ELSE assess_loop(ds, 0, aggregated, verb, <<>>, out)

-----------------------------------------------------------------------------
(* util.get_scene_by_scene_id *)

get_scene_by_scene_id(ds, scene_id) ==
    IF ds.type # "Dataset"
    THEN Raise("TypeError", "data_set must be an xarray.Dataset.", <<>>)
    ELSE IF ~scene_id.int
    THEN Raise("TypeError", "scene_id must be an integer.", <<>>)
    ELSE IF "scl" \notin ds.bands
    THEN Raise("ValueError", "Dataset does not contain the SCL band", <<>>)
    ELSE IF "time" \notin SeqToSet(ds.dims)
    THEN Raise("ValueError", "SCL band must have a 'time' dimension.", <<>>)
    ELSE IF scene_id.v < 0 \/ scene_id.v >= ds.sizes.time
    THEN Raise("ValueError", "scene_id is out of bounds", <<>>)
    ELSE Return(isel_scene(ds, scene_id.v), <<>>)

-----------------------------------------------------------------------------
(* filter_sentinel_2.filter_scenes_by_validity_ratio *)

\* the dataset passes the three checks at the head of the filter
IsUsable(ds) ==
    ds.type = "Dataset" /\ "scl" \in ds.bands /\ "time" \in SeqToSet(ds.dims)

NoValidScenes == "No valid scenes found above the specified thresholds."

\* variant: the comparison with > in place of >=
passes_validity_strict(quality_stats, vt) ==
    ~GreaterEq(vt, dict_get(quality_stats, "valid_ratio", Zero))

\* valid_ratio >= validity_threshold, with a missing valid_ratio read as 0.0
passes_validity(quality_stats, vt) ==
    GreaterEq(dict_get(quality_stats, "valid_ratio", Zero), vt)

\* variant: the comparison with > in place of >=
passes_coverage_strict(quality_stats, ct) ==
    ~GreaterEq(ct, dict_get(quality_stats, "coverage", Zero))

\* variant: the comparison turned round, coverage <= coverage_threshold
passes_coverage_at_most(quality_stats, ct) ==
    GreaterEq(ct, dict_get(quality_stats, "coverage", Zero))

\* coverage >= coverage_threshold, with a missing coverage read as 0.0
passes_coverage(quality_stats, ct) ==
    GreaterEq(dict_get(quality_stats, "coverage", Zero), ct)

\* the verbose line of a scene reads quality_stats['valid_ratio'], with no default
log_line_raises(quality_stats, verb) == verb /\ "valid_ratio" \notin DOMAIN quality_stats

\* variant: every slice of the dataset, whatever the indices
isel_every_slice(ds, indices) == ds

\* data_set.isel(time=indices): the slices at indices, in the order of indices
isel(ds, indices) ==
    [ds EXCEPT !.sizes.time = Len(indices),
               !.time = [k \in DOMAIN indices |-> At(ds.time, indices[k])],
               !.scl = [k \in DOMAIN indices |-> At(ds.scl, indices[k])]]

\* variant: the return without the "if not keep_indices" check
filter_finish_unchecked(ds, keep_indices, out) ==
    Return(isel(ds, keep_indices), Append(out, Info("Filter Scenes Successful.")))

\* what the function does once the loop over quality_report.items() has ended
filter_finish(ds, keep_indices, out) ==
    IF keep_indices = <<>>
    THEN Raise("ValueError", NoValidScenes, out)
    ELSE Return(isel(ds, keep_indices), Append(out, Info("Filter Scenes Successful.")))

\* variant: a loop that looks a scene up only when its record meets the
\* thresholds
RECURSIVE filter_loop_kept_only(_, _, _, _, _, _, _, _, _)
filter_loop_kept_only(ds, items, k, vt, ct, agg, verb, keep_indices, out) ==
    IF k > Len(items) THEN filter_finish(ds, keep_indices, out)
    ELSE LET scene_id == items[k][1]
             quality_stats == items[k][2]
             kept == passes_validity(quality_stats, vt) /\ passes_coverage(quality_stats, ct)
             scene == get_scene_by_scene_id(ds, scene_id)
         IN  IF ~kept
             THEN filter_loop_kept_only(ds, items, k + 1, vt, ct, agg, verb,
                                        keep_indices, out)
             ELSE IF scene.status # "ok" THEN Raise(scene.status, scene.msg, out)
             ELSE IF log_line_raises(quality_stats, verb)
             THEN Raise("KeyError", "valid_ratio", out)
             ELSE filter_loop_kept_only(ds, items, k + 1, vt, ct, agg, verb,
                                        Append(keep_indices, scene_id.v), out)

\* the loop over quality_report.items() from the k-th item on
RECURSIVE filter_loop(_, _, _, _, _, _, _, _, _)
filter_loop(ds, items, k, vt, ct, agg, verb, keep_indices, out) ==
    IF k > Len(items) THEN filter_finish(ds, keep_indices, out)
    ELSE LET scene_id == items[k][1]
             quality_stats == items[k][2]
             valid == passes_validity(quality_stats, vt)
             coverage == passes_coverage(quality_stats, ct)
             scene == get_scene_by_scene_id(ds, scene_id)
             kept == valid /\ coverage
         IN  IF scene.status # "ok" THEN Raise(scene.status, scene.msg, out)
             ELSE IF log_line_raises(quality_stats, verb)
             THEN Raise("KeyError", "valid_ratio", out)
             ELSE filter_loop(ds, items, k + 1, vt, ct, agg, verb,
                              IF kept THEN Append(keep_indices, scene_id.v)
                                      ELSE keep_indices,
                              IF verb
                              THEN Append(out,
                                      [kind |-> "scene",
                                       timestamp_str |-> strftime(scene.value.time, agg),
                                       valid_ratio |-> quality_stats["valid_ratio"],
                                       kept |-> kept])
                              ELSE out)

filter_scenes_by_validity_ratio(ds, report, vt, ct, agg, verb) ==
    LET out == <<Info("Filter Scenes...")>>
    IN  IF ds.type # "Dataset"
        THEN Raise("TypeError", "Input must be an xarray.Dataset.", out)
        ELSE IF "scl" \notin ds.bands
        THEN Raise("ValueError", "Dataset does not contain a 'scl' band.", out)
        ELSE IF "time" \notin SeqToSet(ds.dims)
        THEN Raise("ValueError", "SCL data must have a 'time' dimension.", out)
        ELSE filter_loop(ds, report, 1, vt, ct, agg, verb, <<>>, out)

-----------------------------------------------------------------------------
(* extract_vegetation_ts_sentinel_2.vegetation_time_series, in its two versions *)

\* variant: the position counted from 1
index_from_one(list, x) ==
    IF \E i \in DOMAIN list : list[i] = x
    THEN CHOOSE i \in DOMAIN list : list[i] = x /\ \A j \in 1..(i - 1) : list[j] # x
    ELSE -1

\* list.index(x): the 0-based position of the first x, or -1 where Python
\* raises ValueError
index(list, x) ==
    IF \E i \in DOMAIN list : list[i] = x
    THEN (CHOOSE i \in DOMAIN list :
             list[i] = x /\ \A j \in 1..(i - 1) : list[j] # x) - 1
    ELSE -1

\* variant: the pixel count times pixel_size, not squared
vegetation_area_not_squared(vegetation_pixel_count, size) ==
    Frac(vegetation_pixel_count * size, 1000000)

\* (vegetation_pixel_count * pixel_size**2) / 1e6
vegetation_area_km2_of(vegetation_pixel_count, size) ==
    Frac(vegetation_pixel_count * size * size, 1000000)

\* pd.DataFrame(time_series): two columns under the default index
DataFrame(date_labels, vegetation_areas) ==
    [index |-> "RangeIndex", columns |-> <<"Date", "Vegetation Surface Area">>,
     Date |-> date_labels, Vegetation_Surface_Area |-> vegetation_areas]

\* the line printed for a scene
vegetation_line(timestamp_str, vegetation_pixel_count, vegetation_area_km2) ==
    [kind |-> "scene", timestamp_str |-> timestamp_str,
     vegetation_pixel_count |-> vegetation_pixel_count,
     vegetation_area_km2 |-> vegetation_area_km2]

\* the checks both versions make before the loop, and the read of
\* data_set.sizes["y"] and data_set.sizes["x"]
vegetation_input_error(ds) ==
    IF ds.type # "Dataset"
    THEN Raise("TypeError", "Input must be an xarray.Dataset.", <<>>)
    ELSE IF "scl" \notin ds.bands
    THEN Raise("ValueError", "Dataset does not contain a 'scl' band.", <<>>)
    ELSE IF "time" \notin SeqToSet(ds.dims)
    THEN Raise("ValueError", "SCL input must have a 'time' dimension.", <<>>)
    ELSE IF ~({"y", "x"} \subseteq SeqToSet(ds.dims))
    THEN Raise("KeyError", "sizes", <<>>)
    ELSE Return(None, <<>>)

\* variant: a loop that reads every row from the last slice
RECURSIVE vegetation_loop_last_slice(_, _, _, _, _, _)
vegetation_loop_last_slice(ds, scene_id, size, date_labels, vegetation_areas, out) ==
    IF scene_id >= ds.sizes.time
    THEN Return(DataFrame(date_labels, vegetation_areas), out)
    ELSE LET scene == isel_scene(ds, ds.sizes.time - 1)
             h == calculate_scl_histogram(scene, default_classes)
         IN  IF h.status # "ok" THEN Raise(h.status, "scene", out)
             ELSE IF scene.time = NaT THEN Raise("ValueError", "NaT", out)
             ELSE LET timestamp_str == strftime(scene.time, TRUE)
                      vegetation_pixel_count == At(h.frequencies, 4)
                      vegetation_area_km2 ==
                          vegetation_area_km2_of(vegetation_pixel_count, size)
                  IN  vegetation_loop_last_slice(ds, scene_id + 1, size,
                          Append(date_labels, timestamp_str),
                          Append(vegetation_areas, vegetation_area_km2),
                          Append(out, vegetation_line(timestamp_str,
                                          vegetation_pixel_count, vegetation_area_km2)))

\* src/src: the loop over range(scl.sizes["time"]) from scene_id on
RECURSIVE vegetation_loop(_, _, _, _, _, _)
vegetation_loop(ds, scene_id, size, date_labels, vegetation_areas, out) ==
    IF scene_id >= ds.sizes.time
    THEN Return(DataFrame(date_labels, vegetation_areas), out)
    ELSE LET scene == isel_scene(ds, scene_id)
             h == calculate_scl_histogram(scene, default_classes)
         IN  IF h.status # "ok" THEN Raise(h.status, "scene", out)
             ELSE IF scene.time = NaT THEN Raise("ValueError", "NaT", out)
             ELSE LET timestamp_str == strftime(scene.time, TRUE)
                      vegetation_pixel_count == At(h.frequencies, 4)
                      vegetation_area_km2 ==
                          vegetation_area_km2_of(vegetation_pixel_count, size)
                  IN  vegetation_loop(ds, scene_id + 1, size,
                          Append(date_labels, timestamp_str),
                          Append(vegetation_areas, vegetation_area_km2),
                          Append(out, vegetation_line(timestamp_str,
                                          vegetation_pixel_count, vegetation_area_km2)))

\* src/src: vegetation_time_series(data_set, pixel_size)
vegetation_time_series(ds, size) ==
    LET e == vegetation_input_error(ds)
    IN  IF e.status # "ok" THEN e ELSE vegetation_loop(ds, 0, size, <<>>, <<>>, <<>>)

\* hands_on/step5_extraction: the loop over range(scl.sizes["time"])
RECURSIVE vegetation_loop_step5(_, _, _, _, _, _, _)
vegetation_loop_step5(ds, scene_id, size, aggregated, date_labels, vegetation_areas, out) ==
    IF scene_id >= ds.sizes.time
    THEN Return(DataFrame(date_labels, vegetation_areas), out)
    ELSE LET scene == isel_scene(ds, scene_id)
             h == calculate_scl_histogram(scene, default_classes)
         IN  IF scene.time = NaT THEN Raise("ValueError", "NaT", out)
             ELSE IF h.status # "ok" THEN Raise(h.status, "scene", out)
             ELSE LET timestamp_str == strftime(scene.time, aggregated)
                      position == index(h.classes, 4)
                      vegetation_pixel_count ==
                          IF position >= 0 THEN At(h.frequencies, position) ELSE 0
                      vegetation_area_km2 ==
                          vegetation_area_km2_of(vegetation_pixel_count, size)
                  IN  vegetation_loop_step5(ds, scene_id + 1, size, aggregated,
                          Append(date_labels, timestamp_str),
                          Append(vegetation_areas, vegetation_area_km2),
                          Append(out, vegetation_line(timestamp_str,
                                          vegetation_pixel_count, vegetation_area_km2)))

\* hands_on/step5_extraction: vegetation_time_series(data_set, pixel_size,
\* aggregated=aggregated)
vegetation_time_series_step5(ds, size, aggregated) ==
    LET e == vegetation_input_error(ds)
    IN  IF e.status # "ok" THEN e
        ELSE vegetation_loop_step5(ds, 0, size, aggregated, <<>>, <<>>, <<>>)

-----------------------------------------------------------------------------
(* extract_nvdi_ts_sentinel_2: calculate_ndvi and nvdi_time_series, with *)
(* calculate_nvdi_histogram of hands_on/step4_quality's util             *)

\* np.nan: like the outcome of a division by zero, no fraction
NaN == Frac(0, 0)
isnan(q) == q[2] = 0

\* q < r on fractions with positive denominators
Less(q, r) == q[1] * r[2] < r[1] * q[2]

\* ndvi.clip(min=-1.0, max=1.0)
clip(q) ==
    IF Less(q, Frac(-1, 1)) THEN Frac(-1, 1)
    ELSE IF Less(One, q) THEN One
    ELSE q

\* one pixel of calculate_ndvi: NaN where nir + red is close to 0, otherwise
\* (nir - red) / (nir + red) clipped to [-1, 1]
ndvi_pixel(nir, red) ==
    LET denominator == nir + red
    IN  IF denominator = 0 THEN NaN
        ELSE IF denominator > 0 THEN clip(Frac(nir - red, denominator))
        ELSE clip(Frac(red - nir, 0 - denominator))

\* calculate_ndvi on the two grids of a scene
calculate_ndvi(nir_scene, red_scene) ==
    [y \in DOMAIN nir_scene |->
        [x \in DOMAIN nir_scene[y] |-> ndvi_pixel(nir_scene[y][x], red_scene[y][x])]]

\* the default bin edges of calculate_nvdi_histogram
default_bins ==
    <<Frac(-1, 1), Frac(0, 1), Frac(1, 10), Frac(2, 10), Frac(3, 10), Frac(5, 10),
      Frac(1, 1)>>

\* np.histogram(values, bins): bin k holds edge k <= v < edge k+1, the last
\* bin its right edge too
np_histogram(values, bins) ==
    [k \in 1..(Len(bins) - 1) |->
        Cardinality({i \in DOMAIN values :
            /\ ~Less(values[i], bins[k])
            /\ \/ Less(values[i], bins[k + 1])
               \/ (k = Len(bins) - 1 /\ ~Less(bins[k + 1], values[i]))})]

\* flat_values[~np.isnan(flat_values)]
dropna(values) ==
    LET kept == {i \in DOMAIN values : ~isnan(values[i])}
        RECURSIVE pick(_)
        pick(i) == IF i > Len(values) THEN <<>>
                   ELSE IF i \in kept THEN <<values[i]>> \o pick(i + 1)
                   ELSE pick(i + 1)
    IN  pick(1)

\* calculate_nvdi_histogram(ndvi): the frequencies of the default bins
calculate_nvdi_histogram(ndvi) ==
    LET flat_values == ravel(ndvi)
        valid_values == dropna(flat_values)
    IN  np_histogram(valid_values, default_bins)

\* sum(frequencies[3:])
ndvi_vegetation_pixel_count(frequencies) == sum(Slice(frequencies, 3, Len(frequencies)))

\* the loop over range(nir.sizes["time"]) from scene_id on
RECURSIVE nvdi_loop(_, _, _, _, _, _)
nvdi_loop(ds, scene_id, size, date_labels, vegetation_areas, out) ==
    IF scene_id >= ds.sizes.time
    THEN Return(DataFrame(date_labels, vegetation_areas), out)
    ELSE LET ndvi_scene == calculate_ndvi(At(ds.nir, scene_id), At(ds.red, scene_id))
             frequencies == calculate_nvdi_histogram(ndvi_scene)
         IN  IF At(ds.time, scene_id) = NaT THEN Raise("ValueError", "NaT", out)
             ELSE LET timestamp_str == strftime(At(ds.time, scene_id), TRUE)
                      vegetation_pixel_count == ndvi_vegetation_pixel_count(frequencies)
                      vegetation_area_km2 ==
                          vegetation_area_km2_of(vegetation_pixel_count, size)
                  IN  nvdi_loop(ds, scene_id + 1, size,
                          Append(date_labels, timestamp_str),
                          Append(vegetation_areas, vegetation_area_km2),
                          Append(out, vegetation_line(timestamp_str,
                                          vegetation_pixel_count, vegetation_area_km2)))

\* nvdi_time_series(data_set, pixel_size, aggregated): aggregated is not read
nvdi_time_series(ds, size, aggregated) ==
    IF ds.type # "Dataset"
    THEN Raise("TypeError", "Input must be an xarray.Dataset.", <<>>)
    ELSE IF ~({"nir", "red", "scl"} \subseteq ds.bands)
    THEN Raise("ValueError", "Dataset must include 'nir', 'red', and 'scl' bands.", <<>>)
    ELSE IF "time" \notin SeqToSet(ds.dims)
    THEN Raise("ValueError", "Dataset must include a 'time' dimension.", <<>>)
    ELSE IF ~({"y", "x"} \subseteq SeqToSet(ds.dims))
    THEN Raise("KeyError", "sizes", <<>>)
    ELSE nvdi_loop(ds, 0, size, <<>>, <<>>, <<>>)

-----------------------------------------------------------------------------
(* The configuration documents and their loaders *)

\* a value of a YAML document: its Python type, the number n/d it stands for,
\* and for a list its length, the type of its elements and the strings it holds
YamlValue(type, n, d, len, elem, names) ==
    [type |-> type, n |-> n, d |-> d, len |-> len, elem |-> elem, names |-> names]
YStr == YamlValue("str", 0, 1, 0, "", {})
YInt(i) == YamlValue("int", i, 1, 0, "", {})
YFloat(q) == YamlValue("float", q[1], q[2], 0, "", {})
YBool(b) == YamlValue("bool", IF b THEN 1 ELSE 0, 1, 0, "", {})
YList(len, elem, names) == YamlValue("list", 0, 1, len, elem, names)
YDict == YamlValue("dict", 0, 1, 0, "", {})

\* isinstance(v, str), isinstance(v, int), isinstance(v, (int, float)), ...:
\* a Python bool is an int
is_str(v) == v.type = "str"
is_int(v) == v.type \in {"int", "bool"}
is_number(v) == v.type \in {"int", "float", "bool"}
is_bool(v) == v.type = "bool"
is_dict(v) == v.type = "dict"
is_list_of(v, elems) == v.type = "list" /\ (v.len = 0 \/ v.elem \in elems)

\* a configuration file: absent, or holding a YAML mapping (kind "dict") or
\* nothing (kind "none", which yaml.safe_load reads as None)
NoFile == [exists |-> FALSE, kind |-> "none", config |-> <<>>]
EmptyFile == [exists |-> TRUE, kind |-> "none", config |-> <<>>]
YamlFile(config) == [exists |-> TRUE, kind |-> "dict", config |-> config]

SEARCH_REQUIRED_KEYS == <<"catalog_url", "bbox", "date_range", "cloud_cover_threshold">>
LOAD_REQUIRED_KEYS == <<"bands", "resolution", "aggregation", "chunks">>
FILTER_REQUIRED_KEYS == <<"validity_threshold", "coverage_threshold">>

\* the first key of keys that config lacks, or "" when it has them all
RECURSIVE first_missing(_, _)
first_missing(keys, config) ==
    IF keys = <<>> THEN ""
    ELSE IF Head(keys) \notin DOMAIN config THEN Head(keys)
    ELSE first_missing(Tail(keys), config)

\* search_sentinel_2.load_stac_search_parameters
load_stac_search_parameters(file) ==
    IF ~file.exists
    THEN Raise("FileNotFoundError", "Configuration file not found", <<>>)
    ELSE IF file.kind # "dict"
    THEN Raise("ValueError", "YAML content must be a dictionary", <<>>)
    ELSE LET config == file.config
         IN  IF first_missing(SEARCH_REQUIRED_KEYS, config) # ""
             THEN Raise("ValueError", "Missing required configuration key", <<>>)
             ELSE IF ~is_str(config["catalog_url"])
             THEN Raise("ValueError", "catalog_url must be a string", <<>>)
             ELSE IF ~(config["bbox"].type = "list" /\ config["bbox"].len = 4
                       /\ config["bbox"].elem \in {"int", "float", "bool"})
             THEN Raise("ValueError", "bbox must be a list of four numbers", <<>>)
             ELSE IF ~is_str(config["date_range"])
             THEN Raise("ValueError", "date_range must be a string", <<>>)
             ELSE IF ~is_number(config["cloud_cover_threshold"])
             THEN Raise("ValueError", "cloud_cover_threshold must be a number", <<>>)
             ELSE Return(config, <<>>)

\* load_sentinel_2.load_stac_load_parameters
load_stac_load_parameters(file) ==
    IF ~file.exists
    THEN Raise("FileNotFoundError", "Configuration file not found", <<>>)
    ELSE IF file.kind # "dict"
    THEN Raise("ValueError", "YAML content must be a dictionary", <<>>)
    ELSE LET config == file.config
         IN  IF first_missing(LOAD_REQUIRED_KEYS, config) # ""
             THEN Raise("ValueError", "Missing required config key", <<>>)
             ELSE IF ~is_list_of(config["bands"], {"str"})
             THEN Raise("ValueError", "bands must be a list of strings", <<>>)
             ELSE IF ~is_int(config["resolution"])
             THEN Raise("ValueError", "resolution must be an integer", <<>>)
             ELSE IF ~is_bool(config["aggregation"])
             THEN Raise("ValueError", "aggregation must be a boolean", <<>>)
             ELSE IF ~is_dict(config["chunks"])
             THEN Raise("ValueError", "chunks must be a dictionary", <<>>)
             ELSE Return(config, <<>>)

\* filter_sentinel_2.load_filter_parameters
load_filter_parameters(file) ==
    IF ~file.exists
    THEN Raise("FileNotFoundError", "open", <<>>)
    ELSE IF file.kind # "dict"
    THEN Raise("TypeError", "argument of type 'NoneType' is not iterable", <<>>)
    ELSE IF first_missing(FILTER_REQUIRED_KEYS, file.config) # ""
    THEN Raise("ValueError", "Missing required key", <<>>)
    ELSE Return(file.config, <<>>)

-----------------------------------------------------------------------------
(* The stages of EOWorkflow.perform that the workflow module calls *)

\* search_sentinel_2.search_sentinel2: the checks of its arguments, then the
\* catalog's answer, which holds found_items items
search_sentinel2(catalog_url, bbox, date_range, cloud_cover_threshold, found_items) ==
    LET out == <<Info("Connecting to STAC catalog..."),
                 Info("Performing search query..."), Info("Search Completed.")>>
    IN  IF ~is_str(catalog_url)
        THEN Raise("TypeError", "catalog_url must be a string", <<>>)
        ELSE IF ~(bbox.type = "list" /\ bbox.len = 4
                  /\ bbox.elem \in {"int", "float", "bool"})
        THEN Raise("ValueError", "bbox must be a list of four floats or ints", <<>>)
        ELSE IF ~is_str(date_range)
        THEN Raise("TypeError", "date_range must be a string", <<>>)
        ELSE IF ~is_number(cloud_cover_threshold)
        THEN Raise("TypeError", "cloud_cover_threshold must be a number", <<>>)
        ELSE IF ~(/\ 0 <= cloud_cover_threshold.n
                  /\ cloud_cover_threshold.n <= 100 * cloud_cover_threshold.d)
        THEN Raise("ValueError", "cloud_cover_threshold must be between 0 and 100", <<>>)
        ELSE Return(found_items, out)

\* variant: no check that items were provided
load_sentinel2_xarray_unchecked(found_items, band_keys, resolution, aggregated, loaded) ==
    IF ~is_list_of(band_keys, {"str"})
    THEN Raise("TypeError", "band_keys must be a list of strings", <<>>)
    ELSE IF ~is_int(resolution)
    THEN Raise("TypeError", "resolution must be an integer", <<>>)
    ELSE IF ~is_bool(aggregated)
    THEN Raise("TypeError", "aggregation must be a boolean", <<>>)
    ELSE Return([loaded EXCEPT !.bands = band_keys.names],
                <<Info("Loading data into xarray.Dataset..."),
                  Info("Loading Successful.")>>)

\* load_sentinel_2.load_sentinel2_xarray: the checks of its arguments, then the
\* dataset that odc.stac.load builds, which holds the bands asked for
load_sentinel2_xarray(found_items, band_keys, resolution, aggregated, loaded) ==
    IF found_items = <<>>
    THEN Raise("ValueError", "No STAC items provided for loading", <<>>)
    ELSE IF ~is_list_of(band_keys, {"str"})
    THEN Raise("TypeError", "band_keys must be a list of strings", <<>>)
    ELSE IF ~is_int(resolution)
    THEN Raise("TypeError", "resolution must be an integer", <<>>)
    ELSE IF ~is_bool(aggregated)
    THEN Raise("TypeError", "aggregation must be a boolean", <<>>)
    ELSE Return([loaded EXCEPT !.bands = band_keys.names],
                <<Info("Loading data into xarray.Dataset..."),
                  Info("Loading Successful.")>>)

\* clip_sentinel_2.clip_dataset_to_bbox: every time slice clipped to the
\* columns of the bounding box, here the first kept ones, and concatenated
clip_dataset_to_bbox(dataset, bbox, kept) ==
    Return([dataset EXCEPT
                !.sizes.x = kept,
                !.scl = [i \in DOMAIN dataset.scl |->
                            [y \in DOMAIN dataset.scl[i] |->
                                SubSeq(dataset.scl[i][y], 1, kept)]]],
           <<Info("Starting dataset clipping..."), Info("Clipping completed.")>>)

\* the threshold of the filter configuration as the number it holds
threshold_of(v) == Frac(v.n, v.d)

\* filter_scenes_by_validity_ratio called with the thresholds of the filter
\* configuration: the comparison of a ratio with a threshold that is no number
\* raises TypeError in the first pass of the loop
filter_with_config(ds, report, config, aggregated) ==
    IF /\ IsUsable(ds)
       /\ report # <<>>
       /\ \/ ~is_number(config["validity_threshold"])
          \/ ~is_number(config["coverage_threshold"])
    THEN Raise("TypeError", "'>=' not supported", <<Info("Filter Scenes...")>>)
    ELSE filter_scenes_by_validity_ratio(ds, report,
             threshold_of(config["validity_threshold"]),
             threshold_of(config["coverage_threshold"]), aggregated, TRUE)

\* pd.to_datetime of a date label
to_datetime(label) == <<"datetime64[ns]", label[2]>>

\* visualization_sentinel_2.plot_vegetation_time_series: the table as the
\* function leaves it, the Date column converted and made the index in place
plot_vegetation_time_series(table) ==
    [table EXCEPT !.Date = [k \in DOMAIN table.Date |-> to_datetime(table.Date[k])],
                  !.index = "Date",
                  !.columns = <<"Vegetation Surface Area">>]

-----------------------------------------------------------------------------
(* The assessor called on every dataset within the bounds *)

\* no workflow object exists: a stage function is called on its own
NoWorkflow ==
    /\ config_dir = None
    /\ search_config = None
    /\ load_config = None
    /\ filter_config = None
    /\ stac_items = None
    /\ clipped_data_set = None
    /\ filtered_data_set = None
    /\ time_series = None
    /\ calls = <<>>

\* no call of the assessor is under way
NoSceneCall ==
    /\ assess_valid_classes = None
    /\ scene_locals = None

\* the pixel values of the one-pixel scenes of a dataset with a NaT timestamp
SamplePixels == {0, 4, 7}

\* t one-pixel scenes, the timestamp of the k-th being NaT
NaTDataset(t, k, pixels) ==
    [Dataset(t, 1, 1, [i \in 1..t |-> <<<<pixels[i]>>>>]) EXCEPT !.time[k] = NaT]

ExampleDataset == Dataset(1, 1, 100, <<ExampleScene>>)

\* the lists passed as valid_classes: the default, and vegetation alone
ValidClassLists == {default_valid_classes, <<4>>}

AssessInit ==
    /\ pc = "assess"
    /\ \/ data_set \in Malformed
       \/ \E s \in Shapes : \E scl \in [1..s[1] -> Grids(s[2], s[3])] :
              data_set = Dataset(s[1], s[2], s[3], scl)
       \/ data_set = FlatScl
       \/ \E t \in 1..MaxCells : \E k \in 1..t, pixels \in [1..t -> SamplePixels] :
              data_set = NaTDataset(t, k, pixels)
       \/ data_set = ExampleDataset
    /\ aggregation = None
    /\ verbose = None
    /\ quality_report = None
    /\ validity_threshold = None
    /\ coverage_threshold = None
    /\ ret = None
    /\ pixel_size = None
    /\ NoWorkflow
    /\ NoSceneCall

Assess ==
    /\ pc = "assess"
    /\ \E valid_classes \in ValidClassLists, aggregated \in BOOLEAN, verb \in BOOLEAN :
          /\ ret' = assess_sentinel2_quality(data_set, valid_classes, aggregated, verb)
          /\ assess_valid_classes' = valid_classes
          /\ aggregation' = aggregated
          /\ verbose' = verb
    /\ quality_report' = ret'.value
    /\ pc' = IF ret'.status = "ok" THEN "assessed" ELSE "raised"
    /\ UNCHANGED <<data_set, validity_threshold, coverage_threshold, pixel_size>>
    /\ UNCHANGED workflow_vars
    /\ UNCHANGED scene_locals

AssessNext == Assess

AssessSpec == AssessInit /\ [][AssessNext]_vars

-----------------------------------------------------------------------------
(* The body of the assessor's loop run once for every scene, the scenes taken *)
(* in any order and their bodies interleaved; each body has its own locals    *)

\* scl.isel(time=scene_id) and its histogram
scene_histogram(ds, scene_id) ==
    calculate_scl_histogram(isel_scene(ds, scene_id), default_classes)

\* the record the body builds from the frequencies of its histogram
scene_record(frequencies) ==
    LET total_pixels == total_pixels_of(frequencies)
        valid_pixels == valid_pixels_of(frequencies)
        cloud_pixels == cloud_pixels_of(frequencies)
    IN  [total_pixels |-> total_pixels,
         valid_pixels |-> valid_pixels,
         valid_ratio |-> valid_ratio_of(valid_pixels, total_pixels),
         coverage |-> coverage_of(cloud_pixels, frequencies)]

\* variant: one frequencies for all bodies, holding what was assigned last
frequencies_shared(locals, scene_id) == locals.frequencies

\* the frequencies that the body of scene_id reads: the ones it assigned
frequencies_read(locals, scene_id) == locals.scene[scene_id].frequencies

\* datasets of t scenes of one row of two pixels
ScenePairs(t) == [1..t -> [1..1 -> [1..2 -> SamplePixels]]]

ScenesInit ==
    /\ pc = "scenes"
    /\ \/ \E t \in 0..MaxT : \E scl \in ScenePairs(t) : data_set = Dataset(t, 1, 2, scl)
       \/ data_set = FlatScl
       \/ \E t \in 1..MaxT : \E k \in 1..t, pixels \in [1..t -> SamplePixels] :
              data_set = NaTDataset(t, k, pixels)
    /\ aggregation \in BOOLEAN
    /\ verbose = FALSE
    /\ assess_valid_classes = default_valid_classes
    /\ quality_report = <<>>
    /\ scene_locals =
          [scene |-> [i \in 0..(data_set.sizes.time - 1) |->
                         [at |-> "histogram", frequencies |-> <<>>]],
           frequencies |-> <<>>]
    /\ validity_threshold = None
    /\ coverage_threshold = None
    /\ ret = None
    /\ pixel_size = None
    /\ NoWorkflow

\* the first half of the body of scene_id: the slice and its histogram
SceneHistogram(scene_id) ==
    /\ pc = "scenes"
    /\ scene_locals.scene[scene_id].at = "histogram"
    /\ LET h == scene_histogram(data_set, scene_id)
       IN  IF h.status # "ok"
           THEN /\ ret' = Raise(h.status, "scene", <<>>)
                /\ pc' = "raised"
                /\ UNCHANGED scene_locals
           ELSE /\ scene_locals' =
                      [scene_locals EXCEPT
                          !.scene[scene_id] = [at |-> "record", frequencies |-> h.frequencies],
                          !.frequencies = h.frequencies]
                /\ UNCHANGED <<ret, pc>>
    /\ UNCHANGED <<data_set, quality_report, validity_threshold, coverage_threshold,
                   aggregation, verbose, pixel_size, assess_valid_classes>>
    /\ UNCHANGED workflow_vars

\* the second half: the metrics, the timestamp, and the record stored under
\* the key scene_id
SceneRecord(scene_id) ==
    /\ pc = "scenes"
    /\ scene_locals.scene[scene_id].at = "record"
    /\ LET record == scene_record(frequencies_read(scene_locals, scene_id))
       IN  IF IsFault(record.valid_ratio) \/ IsFault(record.coverage)
           THEN /\ ret' = Raise("ZeroDivisionError", "scene", <<>>)
                /\ pc' = "raised"
                /\ UNCHANGED <<scene_locals, quality_report>>
           ELSE IF At(data_set.time, scene_id) = NaT
           THEN /\ ret' = Raise("ValueError", "scene", <<>>)
                /\ pc' = "raised"
                /\ UNCHANGED <<scene_locals, quality_report>>
           ELSE /\ quality_report' = Append(quality_report, <<IntKey(scene_id), record>>)
                /\ scene_locals' = [scene_locals EXCEPT !.scene[scene_id].at = "done"]
                /\ UNCHANGED <<ret, pc>>
    /\ UNCHANGED <<data_set, validity_threshold, coverage_threshold,
                   aggregation, verbose, pixel_size, assess_valid_classes>>
    /\ UNCHANGED workflow_vars

\* after the last body: the report is returned
ReturnReport ==
    /\ pc = "scenes"
    /\ \A i \in DOMAIN scene_locals.scene : scene_locals.scene[i].at = "done"
    /\ ret' = Return(quality_report, <<>>)
    /\ pc' = "assessed"
    /\ UNCHANGED <<data_set, quality_report, validity_threshold, coverage_threshold,
                   aggregation, verbose, pixel_size>>
    /\ UNCHANGED workflow_vars
    /\ UNCHANGED scene_vars

ScenesNext ==
    \/ \E scene_id \in 0..(data_set.sizes.time - 1) : SceneHistogram(scene_id)
    \/ \E scene_id \in 0..(data_set.sizes.time - 1) : SceneRecord(scene_id)
    \/ ReturnReport

ScenesSpec == ScenesInit /\ [][ScenesNext]_vars

-----------------------------------------------------------------------------
(* The filter called on quality reports of every shape within the bounds *)

Half == Frac(1, 2)
Ratios == {Zero, Half, One}

\* every record a report can hold: each metric present with a ratio, or absent
Records ==
    UNION {[fields -> Ratios] : fields \in SUBSET {"valid_ratio", "coverage"}}

\* the records of the reports that hold more than one: two with both metrics,
\* one without valid_ratio
SampleRecords ==
    {[valid_ratio |-> Half, coverage |-> Half], [valid_ratio |-> One, coverage |-> Zero],
     [coverage |-> One]}

\* the keys: every time index up to MaxT, one below, one above, one non-integer
Keys == {IntKey(i) : i \in -1..MaxT} \cup {StrKey}

DistinctKeys(items) ==
    \A i, j \in DOMAIN items : i # j => items[i][1] # items[j][1]

\* data_set for the filter: t slices of one pixel each
FilterDataset(t, value) ==
    Dataset(t, 1, 1, [i \in 1..t |-> <<<<value>>>>])

FilterInit ==
    /\ pc = "filter"
    /\ \/ /\ data_set \in Malformed
          /\ quality_report \in {<<>>} \cup {<<<<IntKey(0), r>>>> : r \in SampleRecords}
       \/ /\ \E t \in 1..MaxT : data_set = FilterDataset(t, 4)
          /\ \/ quality_report = <<>>
             \/ \E key \in Keys, r \in Records : quality_report = <<<<key, r>>>>
             \/ \E n \in 2..MaxReport : \E items \in [1..n -> Keys \X SampleRecords] :
                    /\ DistinctKeys(items)
                    /\ quality_report = items
    /\ validity_threshold = None
    /\ coverage_threshold = None
    /\ aggregation = None
    /\ verbose = None
    /\ ret = None
    /\ pixel_size = None
    /\ NoWorkflow
    /\ NoSceneCall

Filter ==
    /\ pc = "filter"
    /\ \E vt \in Ratios, ct \in Ratios, agg \in BOOLEAN, verb \in BOOLEAN :
          /\ ret' = filter_scenes_by_validity_ratio(data_set, quality_report,
                                                    vt, ct, agg, verb)
          /\ validity_threshold' = vt
          /\ coverage_threshold' = ct
          /\ aggregation' = agg
          /\ verbose' = verb
    /\ pc' = IF ret'.status = "ok" THEN "filtered" ELSE "raised"
    /\ UNCHANGED <<data_set, quality_report, pixel_size>>
    /\ UNCHANGED workflow_vars
    /\ UNCHANGED scene_vars

FilterNext == Filter

FilterSpec == FilterInit /\ [][FilterNext]_vars

-----------------------------------------------------------------------------
(* The vegetation extractor called on every dataset within the bounds *)

\* the pixel sizes in metres: none, one metre, and the 10 m of the SCL band
PixelSizes == {0, 1, 10}

ExtractInit ==
    /\ pc = "extract"
    /\ \/ data_set \in Malformed
       \/ \E s \in Shapes : \E scl \in [1..s[1] -> [1..s[2] -> [1..s[3] -> SamplePixels]]] :
              data_set = Dataset(s[1], s[2], s[3], scl)
       \/ data_set = FlatScl
       \/ \E t \in 1..MaxCells : \E k \in 1..t, pixels \in [1..t -> SamplePixels] :
              data_set = NaTDataset(t, k, pixels)
    /\ aggregation = None
    /\ verbose = None
    /\ quality_report = None
    /\ validity_threshold = None
    /\ coverage_threshold = None
    /\ ret = None
    /\ pixel_size = None
    /\ NoWorkflow
    /\ NoSceneCall

\* the call of the version of src/src/eo_workflow
Extract ==
    /\ pc = "extract"
    /\ \E size \in PixelSizes :
          /\ ret' = vegetation_time_series(data_set, size)
          /\ pixel_size' = size
    /\ pc' = IF ret'.status = "ok" THEN "extracted" ELSE "raised"
    /\ UNCHANGED <<data_set, quality_report, validity_threshold, coverage_threshold,
                   aggregation, verbose>>
    /\ UNCHANGED workflow_vars
    /\ UNCHANGED scene_vars

\* the call of the version of hands_on/step5_extraction
ExtractStep5 ==
    /\ pc = "extract"
    /\ \E size \in PixelSizes, aggregated \in BOOLEAN :
          /\ ret' = vegetation_time_series_step5(data_set, size, aggregated)
          /\ pixel_size' = size
          /\ aggregation' = aggregated
    /\ pc' = IF ret'.status = "ok" THEN "extracted" ELSE "raised"
    /\ UNCHANGED <<data_set, quality_report, validity_threshold, coverage_threshold,
                   verbose>>
    /\ UNCHANGED workflow_vars
    /\ UNCHANGED scene_vars

ExtractNext == Extract \/ ExtractStep5

ExtractSpec == ExtractInit /\ [][ExtractNext]_vars

-----------------------------------------------------------------------------
(* The NDVI extractor called on every dataset within the bounds *)

\* the (nir, red) reflectances of a pixel: NDVI undefined, -0.5, 0, 0.25, 0.3,
\* 0.5, and 1.5 before clipping
NdviPixels == {<<0, 0>>, <<1, 3>>, <<3, 3>>, <<5, 3>>, <<13, 7>>, <<3, 1>>, <<5, -1>>}

\* an xarray.Dataset with nir, red and scl bands over (time, y, x), its nir
\* and red values taken from a grid of (nir, red) pixels
NdviDataset(t, rows, cols, pixels) ==
    [type |-> "Dataset", bands |-> {"nir", "red", "scl"}, dims |-> <<"time", "y", "x">>,
     sizes |-> [time |-> t, y |-> rows, x |-> cols],
     time |-> range(0, t),
     scl |-> [i \in 1..t |-> [y \in 1..rows |-> [x \in 1..cols |-> 4]]],
     nir |-> [i \in 1..t |-> [y \in 1..rows |-> [x \in 1..cols |-> pixels[i][y][x][1]]]],
     red |-> [i \in 1..t |-> [y \in 1..rows |-> [x \in 1..cols |-> pixels[i][y][x][2]]]]]

NdviInit ==
    /\ pc = "nvdi"
    /\ \/ data_set \in Malformed
       \/ data_set = FlatScl
       \/ \E s \in Shapes : \E pixels \in [1..s[1] -> [1..s[2] -> [1..s[3] -> NdviPixels]]] :
              data_set = NdviDataset(s[1], s[2], s[3], pixels)
       \/ \E pixel \in NdviPixels :
              data_set = [NdviDataset(1, 1, 1, <<<<<<pixel>>>>>>) EXCEPT !.time[1] = NaT]
    /\ aggregation = None
    /\ verbose = None
    /\ quality_report = None
    /\ validity_threshold = None
    /\ coverage_threshold = None
    /\ ret = None
    /\ pixel_size = None
    /\ NoWorkflow
    /\ NoSceneCall

Ndvi ==
    /\ pc = "nvdi"
    /\ \E size \in PixelSizes, aggregated \in BOOLEAN :
          /\ ret' = nvdi_time_series(data_set, size, aggregated)
          /\ pixel_size' = size
          /\ aggregation' = aggregated
    /\ pc' = IF ret'.status = "ok" THEN "extracted" ELSE "raised"
    /\ UNCHANGED <<data_set, quality_report, validity_threshold, coverage_threshold,
                   verbose>>
    /\ UNCHANGED workflow_vars
    /\ UNCHANGED scene_vars

NdviNext == Ndvi

NdviSpec == NdviInit /\ [][NdviNext]_vars

-----------------------------------------------------------------------------
(* The three loaders called on configuration files of every shape *)

\* a value of the type the loader's docstring names for the key
RightValue(key) ==
    CASE key = "bbox" -> YList(4, "float", {})
      [] key = "cloud_cover_threshold" -> YInt(20)
      [] key = "bands" -> YList(1, "str", {"scl"})
      [] key = "resolution" -> YInt(10)
      [] key = "aggregation" -> YBool(TRUE)
      [] key = "chunks" -> YDict
      [] key \in {"validity_threshold", "coverage_threshold"} -> YFloat(Half)
      [] OTHER -> YStr

\* a value of another type: a list of three numbers for bbox, a number for the
\* two strings, a string for every other key
WrongValue(key) ==
    CASE key = "bbox" -> YList(3, "float", {})
      [] key \in {"catalog_url", "date_range"} -> YInt(0)
      [] OTHER -> YStr

\* the files that hold a mapping with some of the keys, some of them mistyped
FilesOver(keys) ==
    {NoFile, EmptyFile} \cup
    UNION {{YamlFile([k \in present |-> IF k \in bad THEN WrongValue(k)
                                                     ELSE RightValue(k)]) :
                bad \in SUBSET present} : present \in SUBSET SeqToSet(keys)}

ConfigInit ==
    /\ pc = "config"
    /\ \/ \E f \in FilesOver(SEARCH_REQUIRED_KEYS) :
              config_dir = [search |-> f, load |-> NoFile, filter |-> NoFile]
       \/ \E f \in FilesOver(LOAD_REQUIRED_KEYS) :
              config_dir = [search |-> NoFile, load |-> f, filter |-> NoFile]
       \/ \E f \in FilesOver(FILTER_REQUIRED_KEYS) :
              config_dir = [search |-> NoFile, load |-> NoFile, filter |-> f]
    /\ search_config = None
    /\ load_config = None
    /\ filter_config = None
    /\ stac_items = None
    /\ clipped_data_set = None
    /\ filtered_data_set = None
    /\ time_series = None
    /\ calls = <<>>
    /\ data_set = None
    /\ quality_report = None
    /\ validity_threshold = None
    /\ coverage_threshold = None
    /\ aggregation = None
    /\ verbose = None
    /\ pixel_size = None
    /\ ret = None
    /\ NoSceneCall

LoadSearchParameters ==
    /\ pc = "config"
    /\ ret' = load_stac_search_parameters(config_dir.search)
    /\ search_config' = ret'.value
    /\ calls' = <<"load_stac_search_parameters">>
    /\ pc' = IF ret'.status = "ok" THEN "loaded" ELSE "raised"
    /\ UNCHANGED <<config_dir, load_config, filter_config, stac_items,
                   clipped_data_set, filtered_data_set, time_series>>
    /\ UNCHANGED <<data_set, quality_report, validity_threshold, coverage_threshold,
                   aggregation, verbose, pixel_size>>
    /\ UNCHANGED scene_vars

LoadLoadParameters ==
    /\ pc = "config"
    /\ ret' = load_stac_load_parameters(config_dir.load)
    /\ load_config' = ret'.value
    /\ calls' = <<"load_stac_load_parameters">>
    /\ pc' = IF ret'.status = "ok" THEN "loaded" ELSE "raised"
    /\ UNCHANGED <<config_dir, search_config, filter_config, stac_items,
                   clipped_data_set, filtered_data_set, time_series>>
    /\ UNCHANGED <<data_set, quality_report, validity_threshold, coverage_threshold,
                   aggregation, verbose, pixel_size>>
    /\ UNCHANGED scene_vars

LoadFilterParameters ==
    /\ pc = "config"
    /\ ret' = load_filter_parameters(config_dir.filter)
    /\ filter_config' = ret'.value
    /\ calls' = <<"load_filter_parameters">>
    /\ pc' = IF ret'.status = "ok" THEN "loaded" ELSE "raised"
    /\ UNCHANGED <<config_dir, search_config, load_config, stac_items,
                   clipped_data_set, filtered_data_set, time_series>>
    /\ UNCHANGED <<data_set, quality_report, validity_threshold, coverage_threshold,
                   aggregation, verbose, pixel_size>>
    /\ UNCHANGED scene_vars

ConfigNext == LoadSearchParameters \/ LoadLoadParameters \/ LoadFilterParameters

ConfigSpec == ConfigInit /\ [][ConfigNext]_vars

-----------------------------------------------------------------------------
(* EOWorkflow.perform *)

\* the calls of perform, in the order of its statements
\* variant: the filter configuration loaded right after the search configuration
STAGES_filter_parameters_early ==
    <<"load_stac_search_parameters", "load_filter_parameters", "search_sentinel2",
      "load_stac_load_parameters", "load_sentinel2_xarray",
      "clip_dataset_to_bbox", "assess_sentinel2_quality",
      "filter_scenes_by_validity_ratio",
      "vegetation_time_series", "plot_vegetation_time_series">>

STAGES ==
    <<"load_stac_search_parameters", "search_sentinel2",
      "load_stac_load_parameters", "load_sentinel2_xarray",
      "clip_dataset_to_bbox", "assess_sentinel2_quality",
      "load_filter_parameters", "filter_scenes_by_validity_ratio",
      "vegetation_time_series", "plot_vegetation_time_series">>

\* the statement that follows the call of stage
next_stage(stage) ==
    LET k == CHOOSE i \in DOMAIN STAGES : STAGES[i] = stage
    IN  IF k = Len(STAGES) THEN "done" ELSE STAGES[k + 1]

\* variant: a call that raised is made again
after_stage_retrying(r, stage) ==
    IF r.status = "ok" THEN next_stage(stage) ELSE stage

\* where perform is after a call: at the next statement, or left by the
\* exception, which nothing in perform catches
after_stage(r, stage) ==
    IF r.status = "ok" THEN next_stage(stage) ELSE "failed"

\* the record of a call: the stage, what it received, how it ended, what it
\* returned
Call(stage, arg, r) ==
    Append(calls, [stage |-> stage, arg |-> arg, status |-> r.status,
                   result |-> r.value])

\* variant: the filter handed the dataset as loaded, before clipping
unclipped_data_set == data_set

\* data_set=clipped_data_set in the call of the filter
filter_data_set_argument == clipped_data_set

\* the search configurations of the runs: a valid one, one whose
\* cloud_cover_threshold is above 100, one without bbox, and no file
SearchFileWith(cloud_cover_threshold) ==
    YamlFile([k \in SeqToSet(SEARCH_REQUIRED_KEYS) |->
                 IF k = "cloud_cover_threshold" THEN YInt(cloud_cover_threshold)
                                                ELSE RightValue(k)])
WorkflowSearchFiles ==
    {SearchFileWith(20), SearchFileWith(200),
     YamlFile([k \in {"catalog_url", "date_range", "cloud_cover_threshold"} |->
                  RightValue(k)]),
     NoFile}

\* the load configurations of the runs: with and without the scl band, with
\* and without aggregation, and one whose resolution is no integer
LoadFileWith(bands, aggregated, resolution) ==
    YamlFile([k \in SeqToSet(LOAD_REQUIRED_KEYS) |->
                 CASE k = "bands" -> YList(1, "str", bands)
                   [] k = "aggregation" -> YBool(aggregated)
                   [] k = "resolution" -> resolution
                   [] OTHER -> RightValue(k)])
WorkflowLoadFiles ==
    {LoadFileWith({"scl"}, TRUE, YInt(10)), LoadFileWith({"scl"}, FALSE, YInt(10)),
     LoadFileWith({"red"}, TRUE, YInt(10)), LoadFileWith({"scl"}, TRUE, YStr)}

\* the filter configurations of the runs: both thresholds 0, 1/2 or 1, a
\* validity_threshold that is a string, and a file without coverage_threshold
FilterFileWith(validity, coverage) ==
    YamlFile([k \in SeqToSet(FILTER_REQUIRED_KEYS) |->
                 IF k = "validity_threshold" THEN validity ELSE coverage])
WorkflowFilterFiles ==
    {FilterFileWith(YFloat(q), YFloat(q)) : q \in Ratios} \cup
    {FilterFileWith(YStr, YFloat(Half)),
     YamlFile([k \in {"validity_threshold"} |-> YFloat(Half)])}

Init ==
    /\ pc = "load_stac_search_parameters"
    /\ config_dir \in [search : WorkflowSearchFiles, load : WorkflowLoadFiles,
                        filter : WorkflowFilterFiles]
    /\ search_config = None
    /\ load_config = None
    /\ filter_config = None
    /\ stac_items = None
    /\ data_set = None
    /\ clipped_data_set = None
    /\ quality_report = None
    /\ filtered_data_set = None
    /\ time_series = None
    /\ calls = <<>>
    /\ ret = None
    /\ validity_threshold = None
    /\ coverage_threshold = None
    /\ aggregation = None
    /\ verbose = None
    /\ pixel_size = None
    /\ NoSceneCall

\* the arguments of a stage called on its own play no part in a run
call_vars == <<validity_threshold, coverage_threshold, aggregation, verbose, pixel_size>>

\* step 1
PerformLoadSearchParameters ==
    /\ pc = "load_stac_search_parameters"
    /\ ret' = load_stac_search_parameters(config_dir.search)
    /\ search_config' = ret'.value
    /\ calls' = Call(pc, config_dir.search, ret')
    /\ pc' = after_stage(ret', pc)
    /\ UNCHANGED <<config_dir, load_config, filter_config, stac_items, data_set,
                   clipped_data_set, quality_report, filtered_data_set, time_series>>
    /\ UNCHANGED call_vars
    /\ UNCHANGED scene_vars

\* step 2: the catalog answers with up to MaxT items
PerformSearch ==
    /\ pc = "search_sentinel2"
    /\ \E n \in 0..MaxT :
          ret' = search_sentinel2(search_config["catalog_url"], search_config["bbox"],
                                  search_config["date_range"],
                                  search_config["cloud_cover_threshold"],
                                  [i \in 1..n |-> i])
    /\ stac_items' = ret'.value
    /\ calls' = Call(pc, search_config, ret')
    /\ pc' = after_stage(ret', pc)
    /\ UNCHANGED <<config_dir, search_config, load_config, filter_config, data_set,
                   clipped_data_set, quality_report, filtered_data_set, time_series>>
    /\ UNCHANGED call_vars
    /\ UNCHANGED scene_vars

\* step 3, first half
PerformLoadLoadParameters ==
    /\ pc = "load_stac_load_parameters"
    /\ ret' = load_stac_load_parameters(config_dir.load)
    /\ load_config' = ret'.value
    /\ calls' = Call(pc, config_dir.load, ret')
    /\ pc' = after_stage(ret', pc)
    /\ UNCHANGED <<config_dir, search_config, filter_config, stac_items, data_set,
                   clipped_data_set, quality_report, filtered_data_set, time_series>>
    /\ UNCHANGED call_vars
    /\ UNCHANGED scene_vars

\* step 3, second half: the items load into at most one time slice each, of one
\* row of two pixels
PerformLoad ==
    /\ pc = "load_sentinel2_xarray"
    /\ \E t \in 1..(IF stac_items = <<>> THEN 1 ELSE Len(stac_items)) :
       \E scl \in [1..t -> [1..1 -> [1..2 -> SamplePixels]]] :
          ret' = load_sentinel2_xarray(stac_items, load_config["bands"],
                                       load_config["resolution"],
                                       load_config["aggregation"],
                                       Dataset(t, 1, 2, scl))
    /\ data_set' = ret'.value
    /\ calls' = Call(pc, stac_items, ret')
    /\ pc' = after_stage(ret', pc)
    /\ UNCHANGED <<config_dir, search_config, load_config, filter_config, stac_items,
                   clipped_data_set, quality_report, filtered_data_set, time_series>>
    /\ UNCHANGED call_vars
    /\ UNCHANGED scene_vars

\* step 4: the bounding box covers the first column or both
PerformClip ==
    /\ pc = "clip_dataset_to_bbox"
    /\ \E kept \in 1..2 :
          ret' = clip_dataset_to_bbox(data_set, search_config["bbox"], kept)
    /\ clipped_data_set' = ret'.value
    /\ calls' = Call(pc, data_set, ret')
    /\ pc' = after_stage(ret', pc)
    /\ UNCHANGED <<config_dir, search_config, load_config, filter_config, stac_items,
                   data_set, quality_report, filtered_data_set, time_series>>
    /\ UNCHANGED call_vars
    /\ UNCHANGED scene_vars

\* step 5
PerformAssess ==
    /\ pc = "assess_sentinel2_quality"
    /\ ret' = assess_sentinel2_quality(clipped_data_set, default_valid_classes, TRUE, TRUE)
    /\ quality_report' = ret'.value
    /\ calls' = Call(pc, clipped_data_set, ret')
    /\ pc' = after_stage(ret', pc)
    /\ UNCHANGED <<config_dir, search_config, load_config, filter_config, stac_items,
                   data_set, clipped_data_set, filtered_data_set, time_series>>
    /\ UNCHANGED call_vars
    /\ UNCHANGED scene_vars

\* step 6, first half
PerformLoadFilterParameters ==
    /\ pc = "load_filter_parameters"
    /\ ret' = load_filter_parameters(config_dir.filter)
    /\ filter_config' = ret'.value
    /\ calls' = Call(pc, config_dir.filter, ret')
    /\ pc' = after_stage(ret', pc)
    /\ UNCHANGED <<config_dir, search_config, load_config, stac_items, data_set,
                   clipped_data_set, quality_report, filtered_data_set, time_series>>
    /\ UNCHANGED call_vars
    /\ UNCHANGED scene_vars

\* step 6, second half
PerformFilter ==
    /\ pc = "filter_scenes_by_validity_ratio"
    /\ ret' = filter_with_config(filter_data_set_argument, quality_report,
                                 filter_config, load_config["aggregation"].n = 1)
    /\ filtered_data_set' = ret'.value
    /\ calls' = Call(pc, <<filter_data_set_argument, quality_report>>, ret')
    /\ pc' = after_stage(ret', pc)
    /\ UNCHANGED <<config_dir, search_config, load_config, filter_config, stac_items,
                   data_set, clipped_data_set, quality_report, time_series>>
    /\ UNCHANGED call_vars
    /\ UNCHANGED scene_vars

\* step 7
PerformExtract ==
    /\ pc = "vegetation_time_series"
    /\ ret' = vegetation_time_series(filtered_data_set, load_config["resolution"].n)
    /\ time_series' = ret'.value
    /\ calls' = Call(pc, filtered_data_set, ret')
    /\ pc' = after_stage(ret', pc)
    /\ UNCHANGED <<config_dir, search_config, load_config, filter_config, stac_items,
                   data_set, clipped_data_set, quality_report, filtered_data_set>>
    /\ UNCHANGED call_vars
    /\ UNCHANGED scene_vars

\* step 8: the plot function works on the table it is given
PerformVisualize ==
    /\ pc = "plot_vegetation_time_series"
    /\ ret' = Return(None, <<>>)
    /\ time_series' = plot_vegetation_time_series(time_series)
    /\ calls' = Call(pc, time_series, ret')
    /\ pc' = after_stage(ret', pc)
    /\ UNCHANGED <<config_dir, search_config, load_config, filter_config, stac_items,
                   data_set, clipped_data_set, quality_report, filtered_data_set>>
    /\ UNCHANGED call_vars
    /\ UNCHANGED scene_vars

Next ==
    \/ PerformLoadSearchParameters
    \/ PerformSearch
    \/ PerformLoadLoadParameters
    \/ PerformLoad
    \/ PerformClip
    \/ PerformAssess
    \/ PerformLoadFilterParameters
    \/ PerformFilter
    \/ PerformExtract
    \/ PerformVisualize

Spec == Init /\ [][Next]_vars

-----------------------------------------------------------------------------
(* Properties of the filter, checked under FilterSpec *)

\* a metric of a record as the filter reads it: 0.0 when the record lacks it
Metric(record, name) == IF name \in DOMAIN record THEN record[name] ELSE Zero

\* q >= r on fractions
AtLeast(q, r) == q[1] * r[2] >= r[1] * q[2]

\* the record meets the two thresholds
MeetsBoth(record, vt, ct) ==
    /\ AtLeast(Metric(record, "valid_ratio"), vt)
    /\ AtLeast(Metric(record, "coverage"), ct)

\* the keys of the report whose record meets the two thresholds of the call
PassingKeys ==
    {quality_report[k][1] : k \in {j \in DOMAIN quality_report :
        MeetsBoth(quality_report[j][2], validity_threshold, coverage_threshold)}}

ReportKeys == {quality_report[k][1] : k \in DOMAIN quality_report}

\* the time indices of the dataset the filter returned
KeptIndices == SeqToSet(ret.value.time)

FilterCalled == pc \in {"filtered", "raised"}

EmptyResultError == ret.status = "ValueError" /\ ret.msg = NoValidScenes

IsWellFormed(ds) ==
    ds.type = "Dataset" /\ "scl" \in ds.bands /\ "time" \in SeqToSet(ds.dims)

ValidKey(key, ds) == key.int /\ key.v >= 0 /\ key.v < ds.sizes.time

\* every record holds the two metrics
CompleteRecords ==
    \A k \in DOMAIN quality_report :
        DOMAIN quality_report[k][2] = {"valid_ratio", "coverage"}

\* the loop over the report runs to its end: no key is rejected by
\* get_scene_by_scene_id and no log line fails
LoopCompletes ==
    /\ IsWellFormed(data_set)
    /\ \A k \in DOMAIN quality_report :
        /\ ValidKey(quality_report[k][1], data_set)
        /\ verbose => "valid_ratio" \in DOMAIN quality_report[k][2]

\* C1: a returned dataset holds exactly the scenes whose record has
\* valid_ratio >= validity_threshold and coverage >= coverage_threshold, both
\* comparisons inclusive; and the empty-result error means no record meets both.
C1_KeptIffBothThresholds ==
    /\ pc = "filtered" => {IntKey(i) : i \in KeptIndices} = PassingKeys
    /\ (pc = "raised" /\ EmptyResultError) => PassingKeys = {}

\* a scene whose two metrics equal the two thresholds is kept
C1_Witness ==
    /\ pc = "filtered"
    /\ \E k \in DOMAIN quality_report :
        /\ DOMAIN quality_report[k][2] = {"valid_ratio", "coverage"}
        /\ quality_report[k][2]["valid_ratio"] = validity_threshold
        /\ quality_report[k][2]["coverage"] = coverage_threshold
        /\ validity_threshold = Half
        /\ quality_report[k][1].v \in KeptIndices

C3_TemporalOrder ==
    (pc = "filtered" /\ CompleteRecords) =>
        \A i, j \in DOMAIN ret.value.time :
            i < j => ret.value.time[i] < ret.value.time[j]

\* C4: with both thresholds 0 and a non-empty report whose metrics lie in
\* [0,1], every scene that has a record is kept: the call does not end in the
\* empty-result error, and the dataset it returns holds every key of the report.
C4_ZeroThresholdsKeepAll ==
    (/\ FilterCalled
     /\ validity_threshold = Zero
     /\ coverage_threshold = Zero
     /\ quality_report # <<>>
     /\ CompleteRecords)
        => /\ ~EmptyResultError
           /\ LoopCompletes => pc = "filtered"
           /\ pc = "filtered" => {IntKey(i) : i \in KeptIndices} = ReportKeys

\* two scenes with metrics 1/2 and (1, 0), both kept under thresholds 0
C4_Witness ==
    /\ pc = "filtered"
    /\ validity_threshold = Zero
    /\ coverage_threshold = Zero
    /\ CompleteRecords
    /\ Len(quality_report) = 2
    /\ KeptIndices = {0, 1}
    /\ \E k \in DOMAIN quality_report : quality_report[k][2]["coverage"] = Zero

\* what a call yields: the kept indices, or the error
Outcome(r) ==
    IF r.status = "ok" THEN <<"ok", "", r.value.time>> ELSE <<r.status, r.msg, <<>>>>

\* the datasets with the time axis of ds and other pixel contents
SameTimeAxis(ds) ==
    IF IsWellFormed(ds)
    THEN {FilterDataset(ds.sizes.time, v) : v \in PixelValues}
    ELSE {ds}

\* C5: the outcome depends on the quality report and the two thresholds alone:
\* a second call with the same report and thresholds, on other pixel contents
\* and with other aggregation and verbose arguments, yields the same kept
\* indices or the same error.
C5_PureFunctionOfReportAndThresholds ==
    FilterCalled =>
        \A ds \in SameTimeAxis(data_set), agg \in BOOLEAN, verb \in BOOLEAN :
            Outcome(filter_scenes_by_validity_ratio(ds, quality_report,
                        validity_threshold, coverage_threshold, agg, verb))
                = Outcome(ret)

-----------------------------------------------------------------------------
(* Properties of the assessor, checked under AssessSpec *)

\* the number of pixels of a grid whose value is in codes, counted pixel by pixel
PixelCount(grid, codes) ==
    Cardinality({p \in (DOMAIN grid) \X (1..data_set.sizes.x) :
                    grid[p[1]][p[2]] \in codes})

\* the grid, the record and the printed line of time index i
GridAt(i) == data_set.scl[i + 1]
RecordAt(i) == quality_report[i + 1][2]
LineAt(i) == ret.stdout[i + 2]

Scenes == 0..(data_set.sizes.time - 1)

InUnitInterval(q) == q[2] > 0 /\ q[1] >= 0 /\ q[1] <= q[2]

NoDivisionFault == pc = "raised" => ret.status # "ZeroDivisionError"

\* C6: the histogram counts of every scene sum to rows times columns, so
\* total_pixels is the pixel count of the scene.
C6_HistogramPartition ==
    pc = "assessed" =>
        \A i \in Scenes :
            RecordAt(i).total_pixels = data_set.sizes.y * data_set.sizes.x

\* C7: valid_ratio lies in [0,1], is 0 when total_pixels is 0, and no division
\* by zero is raised.
C7_ValidRatioInUnitInterval ==
    /\ NoDivisionFault
    /\ pc = "assessed" =>
        \A i \in Scenes :
            /\ InUnitInterval(RecordAt(i).valid_ratio)
            /\ RecordAt(i).total_pixels = 0 => RecordAt(i).valid_ratio = Zero

\* a scene with total_pixels 0 has valid_ratio 0
C7_Witness ==
    /\ pc = "assessed"
    /\ \E i \in Scenes : RecordAt(i).total_pixels = 0 /\ RecordAt(i).valid_ratio = Zero

\* C8: coverage lies in [0,1], is 0 whenever the scene has no vegetation pixel,
\* and no division by zero is raised.
C8_CoverageInUnitInterval ==
    /\ NoDivisionFault
    /\ pc = "assessed" =>
        \A i \in Scenes :
            /\ InUnitInterval(RecordAt(i).coverage)
            /\ PixelCount(GridAt(i), {4}) = 0 => RecordAt(i).coverage = Zero

\* a scene made only of no-data pixels has coverage 0
C8_Witness ==
    /\ pc = "assessed"
    /\ \E i \in Scenes :
        /\ data_set.sizes.y * data_set.sizes.x >= 2
        /\ PixelCount(GridAt(i), {0}) = data_set.sizes.y * data_set.sizes.x
        /\ RecordAt(i).coverage = Zero

\* 1 - c / v as an exact fraction
OneMinusRatio(c, v) == <<v - c, v>>

\* C9: coverage is 1 - cloud_pixels / vegetation_pixels when vegetation_pixels
\* is nonzero and cloud_pixels < vegetation_pixels, and 0 in every other case.
C9_CoverageFormula ==
    pc = "assessed" =>
        \A i \in Scenes :
            LET c == PixelCount(GridAt(i), {7, 8, 9, 10})
                v == PixelCount(GridAt(i), {4})
            IN  RecordAt(i).coverage =
                    IF v # 0 /\ c < v THEN OneMinusRatio(c, v) ELSE Zero

\* two vegetation pixels and one cloud pixel: coverage 1/2
C9_Witness ==
    /\ pc = "assessed"
    /\ \E i \in Scenes :
        /\ PixelCount(GridAt(i), {7, 8, 9, 10}) = 1
        /\ PixelCount(GridAt(i), {4}) = 2
        /\ RecordAt(i).coverage = <<1, 2>>
\* C10: cloud_pixels, as printed for each scene, is the number of pixels of the
\* four codes 7, 8, 9 and 10.
C10_CloudPixelsFourCodes ==
    (pc = "assessed" /\ verbose) =>
        \A i \in Scenes :
            LineAt(i).cloud_pixels = PixelCount(GridAt(i), {7, 8, 9, 10})

\* a scene with one cirrus pixel and one snow pixel counts one cloud pixel
C10_Witness ==
    /\ pc = "assessed"
    /\ verbose
    /\ \E i \in Scenes :
        /\ PixelCount(GridAt(i), {10}) = 1
        /\ PixelCount(GridAt(i), {11}) = 1
        /\ LineAt(i).cloud_pixels = 1

\* C11: for every scene, valid_pixels is total_pixels minus the number of
\* code-0 pixels of the scene, hence 0 <= valid_pixels <= total_pixels.
C11_ValidPixelsExcludeNoData ==
    pc = "assessed" =>
        \A i \in Scenes :
            /\ RecordAt(i).valid_pixels =
                    RecordAt(i).total_pixels - PixelCount(GridAt(i), {0})
            /\ 0 <= RecordAt(i).valid_pixels
            /\ RecordAt(i).valid_pixels <= RecordAt(i).total_pixels

\* a scene with one no-data pixel and two others: 2 valid pixels of 3
C11_Witness ==
    /\ pc = "assessed"
    /\ \E i \in Scenes :
        /\ PixelCount(GridAt(i), {0}) = 1
        /\ RecordAt(i).total_pixels = 3
        /\ RecordAt(i).valid_pixels = 2

\* the four metrics of a grid, counted pixel by pixel
MetricsOf(grid) ==
    LET total == PixelCount(grid, 0..11)
        valid == PixelCount(grid, 1..11)
        c == PixelCount(grid, {7, 8, 9, 10})
        v == PixelCount(grid, {4})
    IN  [total_pixels |-> total,
         valid_pixels |-> valid,
         valid_ratio |-> IF total # 0 THEN <<valid, total>> ELSE Zero,
         coverage |-> IF v # 0 /\ c < v THEN OneMinusRatio(c, v) ELSE Zero]

\* C12: on a dataset with T time slices the returned mapping has the keys
\* 0..T-1, one record per time index, and the record of index i holds
\* total_pixels, valid_pixels, valid_ratio and coverage of slice i.
C12_OneRecordPerTimeIndex ==
    pc = "assessed" =>
        /\ Len(quality_report) = data_set.sizes.time
        /\ \A i \in Scenes :
            /\ quality_report[i + 1][1] = IntKey(i)
            /\ RecordAt(i) = MetricsOf(GridAt(i))

\* two slices with different contents, each with its own record
C12_Witness ==
    /\ pc = "assessed"
    /\ data_set.sizes.time = 2
    /\ PixelCount(GridAt(0), {0}) = 1
    /\ PixelCount(GridAt(1), {4}) = 1
    /\ RecordAt(0).valid_pixels = 0
    /\ RecordAt(1).valid_pixels = 1
    /\ RecordAt(1).coverage = One

AssessCalled == pc \in {"assessed", "raised"}

\* C13: a dataset without scl band or without time dimension is rejected with
\* a ValueError; and the call either returns a record for every scene or
\* raises and returns no record, also when scenes were assessed before the
\* one that failed.
C13_AllScenesOrNone ==
    /\ (AssessCalled /\ data_set \in {NoSclBand, NoTimeDim}) =>
          (pc = "raised" /\ ret.status = "ValueError")
    /\ pc = "assessed" =>
          /\ Len(quality_report) = data_set.sizes.time
          /\ \A i \in Scenes : data_set.time[i + 1] # NaT
    /\ pc = "raised" => (ret.value = None /\ quality_report = None)

\* the second scene fails after the first was assessed: no record is returned
C13_Witness ==
    /\ pc = "raised"
    /\ IsWellFormed(data_set)
    /\ data_set.sizes.time >= 2
    /\ data_set.time[1] # NaT
    /\ data_set.time[2] = NaT
    /\ ret.status = "ValueError"
    /\ quality_report = None

\* C14: on the 100-pixel scene of the worked example the assessor yields
\* valid_pixels = 100, valid_ratio = 1.0, cloud_pixels = 5 and
\* coverage = 1 - 5/80 = 15/16.
C14_WorkedExample ==
    (pc = "assessed" /\ data_set = ExampleDataset) =>
        /\ RecordAt(0).valid_pixels = 100
        /\ AtLeast(RecordAt(0).valid_ratio, One)
        /\ AtLeast(One, RecordAt(0).valid_ratio)
        /\ AtLeast(RecordAt(0).coverage, <<15, 16>>)
        /\ AtLeast(<<15, 16>>, RecordAt(0).coverage)
        /\ verbose => LineAt(0).cloud_pixels = 5

-----------------------------------------------------------------------------
(* Properties of the vegetation extractor, checked under ExtractSpec *)

\* the table the extractor returned, row by row
Rows == DOMAIN ret.value.Date
AreaAt(k) == ret.value.Vegetation_Surface_Area[k]

\* q = r on fractions with positive denominators
SameValue(q, r) == q[1] * r[2] = r[1] * q[2]

\* C15 as stated: the area of every row is vegetation_pixel_count *
\* pixel_size^2 / 1e6 with vegetation_pixel_count the number of code-4 pixels
\* of the scene, 1,000,000 pixels at pixel size 10 give 100 km2, and the area
\* is 0 exactly when the scene has no code-4 pixel.
C15_AreaZeroIffNoVegetation ==
    pc = "extracted" =>
        \A k \in Rows :
            LET n == PixelCount(data_set.scl[k], {4})
            IN  /\ SameValue(AreaAt(k), <<n * pixel_size * pixel_size, 1000000>>)
                /\ SameValue(AreaAt(k), Zero) <=> n = 0

\* C15: the area of every row is vegetation_pixel_count * pixel_size^2 / 1e6
\* with vegetation_pixel_count the number of code-4 pixels of the scene;
\* 1,000,000 pixels at pixel size 10 give 100 km2; a scene without code-4 pixel
\* has area 0, and for a pixel size other than 0 only such a scene has.
C15_AreaFromVegetationPixels ==
    /\ SameValue(vegetation_area_km2_of(1000000, 10), <<100, 1>>)
    /\ pc = "extracted" =>
        \A k \in Rows :
            LET n == PixelCount(data_set.scl[k], {4})
            IN  /\ SameValue(AreaAt(k), <<n * pixel_size * pixel_size, 1000000>>)
                /\ n = 0 => SameValue(AreaAt(k), Zero)
                /\ (pixel_size # 0 /\ SameValue(AreaAt(k), Zero)) => n = 0

\* at pixel size 10, a scene with one vegetation pixel has area 100 / 1e6 and
\* a scene with none has area 0
C15_Witness ==
    /\ pc = "extracted"
    /\ pixel_size = 10
    /\ \E j, k \in Rows :
        /\ PixelCount(data_set.scl[j], {4}) = 1
        /\ AreaAt(j) = <<100, 1000000>>
        /\ PixelCount(data_set.scl[k], {4}) = 0
        /\ AreaAt(k) = <<0, 1000000>>

-----------------------------------------------------------------------------
(* Properties of the configuration loaders, checked under ConfigSpec *)

\* the file holds a mapping with every key of keys
HasKeys(file, keys) ==
    file.exists /\ file.kind = "dict" /\ SeqToSet(keys) \subseteq DOMAIN file.config

\* the value of the key has the type the configuration reference gives it
WellTyped(key, v) ==
    CASE key \in {"catalog_url", "date_range"} -> v.type = "str"
      [] key = "bbox" -> v.type = "list" /\ v.len = 4 /\ v.elem \in {"int", "float"}
      [] key = "bands" -> v.type = "list" /\ v.elem = "str"
      [] key = "resolution" -> v.type = "int"
      [] key = "aggregation" -> v.type = "bool"
      [] key = "chunks" -> v.type = "dict"
      [] OTHER -> v.type \in {"int", "float"}

ValidDocument(file, keys) ==
    HasKeys(file, keys) /\ \A k \in SeqToSet(keys) : WellTyped(k, file.config[k])

\* C19: a loader returns a configuration only for a document that holds every
\* required key with a value of the right type; every other document is
\* rejected with an error.
C19_LoadersValidateKeysAndTypes ==
    pc = "loaded" =>
        /\ calls = <<"load_stac_search_parameters">> =>
               ValidDocument(config_dir.search, SEARCH_REQUIRED_KEYS)
        /\ calls = <<"load_stac_load_parameters">> =>
               ValidDocument(config_dir.load, LOAD_REQUIRED_KEYS)
        /\ calls = <<"load_filter_parameters">> =>
               ValidDocument(config_dir.filter, FILTER_REQUIRED_KEYS)

-----------------------------------------------------------------------------
(* Properties of EOWorkflow.perform, checked under Spec *)

\* the seven stages, in their dependency order
DependencyOrder ==
    <<"search_sentinel2", "load_sentinel2_xarray", "clip_dataset_to_bbox",
      "assess_sentinel2_quality", "filter_scenes_by_validity_ratio",
      "vegetation_time_series", "plot_vegetation_time_series">>

IsStage(call) == call.stage \in SeqToSet(DependencyOrder)

\* the stages called so far, in the order of their calls
StagesCalled == [k \in DOMAIN SelectSeq(calls, IsStage) |-> SelectSeq(calls, IsStage)[k].stage]

WasCalled(stage) == \E i \in DOMAIN calls : calls[i].stage = stage

\* what the call of the stage received, and what it returned
ArgOf(stage) == calls[CHOOSE i \in DOMAIN calls : calls[i].stage = stage].arg
ResultOf(stage) == calls[CHOOSE i \in DOMAIN calls : calls[i].stage = stage].result

\* C17: the stages run one after the other in dependency order, a stage only
\* after every earlier call has returned, and each stage receives what its
\* predecessor returned: the loader the items found, the clipper the loaded
\* dataset, the assessor and the filter the clipped dataset, the filter also
\* the quality report, the extractor the filtered dataset, the visualizer the
\* table.
C17_StagesInDependencyOrder ==
    /\ Len(StagesCalled) <= Len(DependencyOrder)
    /\ StagesCalled = SubSeq(DependencyOrder, 1, Len(StagesCalled))
    /\ \A i \in 1..(Len(calls) - 1) : calls[i].status = "ok"
    /\ WasCalled("load_sentinel2_xarray") =>
           ArgOf("load_sentinel2_xarray") = ResultOf("search_sentinel2")
    /\ WasCalled("clip_dataset_to_bbox") =>
           ArgOf("clip_dataset_to_bbox") = ResultOf("load_sentinel2_xarray")
    /\ WasCalled("assess_sentinel2_quality") =>
           ArgOf("assess_sentinel2_quality") = ResultOf("clip_dataset_to_bbox")
    /\ WasCalled("filter_scenes_by_validity_ratio") =>
           ArgOf("filter_scenes_by_validity_ratio") =
               <<ResultOf("clip_dataset_to_bbox"), ResultOf("assess_sentinel2_quality")>>
    /\ WasCalled("vegetation_time_series") =>
           ArgOf("vegetation_time_series") = ResultOf("filter_scenes_by_validity_ratio")
    /\ WasCalled("plot_vegetation_time_series") =>
           ArgOf("plot_vegetation_time_series") = ResultOf("vegetation_time_series")

\* a complete run in which the clip dropped a column and the filter a scene
C17_Witness ==
    /\ pc = "done"
    /\ Len(calls) = 10
    /\ data_set.sizes.x = 2
    /\ clipped_data_set.sizes.x = 1
    /\ clipped_data_set.sizes.time = 2
    /\ filtered_data_set.sizes.time = 1
    /\ ArgOf("vegetation_time_series") = filtered_data_set

\* C18: a call that raises is the last call of the run: the run ends in its
\* error, no stage is called after it, none is called twice, and in
\* particular after the empty-result error of the filter neither the
\* extractor nor the visualizer is called.
C18_FailFast ==
    /\ \A i \in DOMAIN calls :
           calls[i].status # "ok" =>
               /\ i = Len(calls)
               /\ pc = "failed"
               /\ ret.status = calls[i].status
    /\ pc = "failed" =>
           /\ calls # <<>>
           /\ calls[Len(calls)].status # "ok"
           /\ ~ENABLED Next
    /\ \A i, j \in DOMAIN calls : i # j => calls[i].stage # calls[j].stage
    /\ (pc = "failed" /\ ret.msg = NoValidScenes) =>
           /\ ~WasCalled("vegetation_time_series")
           /\ ~WasCalled("plot_vegetation_time_series")

\* a run that ends in the empty-result error of the filter, its eighth call
C18_Witness ==
    /\ pc = "failed"
    /\ ret.status = "ValueError"
    /\ ret.msg = NoValidScenes
    /\ Len(calls) = 8
    /\ calls[8].stage = "filter_scenes_by_validity_ratio"
    /\ time_series = None

\* C20: the object a stage received is, after the call, equal to what it was
\* before: the clipped dataset after the assessor and after the filter, the
\* quality report after the filter, the filtered dataset after the extractor,
\* the time-series table after the visualizer.
C20_NoStageMutatesItsInput ==
    [][/\ pc = "assess_sentinel2_quality" => clipped_data_set' = clipped_data_set
       /\ pc = "filter_scenes_by_validity_ratio" =>
              (clipped_data_set' = clipped_data_set /\ quality_report' = quality_report)
       /\ pc = "vegetation_time_series" => filtered_data_set' = filtered_data_set
       /\ pc = "plot_vegetation_time_series" => time_series' = time_series]_vars

-----------------------------------------------------------------------------
(* The valid_classes argument of the assessor *)

\* C21: valid_pixels of every scene is the number of its pixels whose code is
\* in valid_classes, and valid_ratio is that number over total_pixels.
C21_ValidClassesDecideValidity ==
    pc = "assessed" =>
        \A i \in Scenes :
            LET valid == PixelCount(GridAt(i), SeqToSet(assess_valid_classes))
            IN  /\ RecordAt(i).valid_pixels = valid
                /\ RecordAt(i).total_pixels # 0 =>
                       SameValue(RecordAt(i).valid_ratio,
                                 <<valid, RecordAt(i).total_pixels>>)

-----------------------------------------------------------------------------
(* Scenes assessed in any order *)

\* what the sequential loop of the assessor yields on the dataset
SequentialReport ==
    assess_sentinel2_quality(data_set, default_valid_classes, aggregation, FALSE)

\* C22: whatever the order and interleaving of the scene bodies, the record
\* stored under key i is the one computed from the pixels of slice i, the
\* finished report holds the same records under the same keys as the report
\* of the sequential loop, and the bodies raise only what the loop raises.
C22_ScenesIndependent ==
    /\ pc \in {"scenes", "assessed"} =>
          \A k \in DOMAIN quality_report :
              quality_report[k][2] = MetricsOf(At(data_set.scl, quality_report[k][1].v))
    /\ pc = "assessed" =>
          /\ SequentialReport.status = "ok"
          /\ Len(quality_report) = Len(SequentialReport.value)
          /\ SeqToSet(quality_report) = SeqToSet(SequentialReport.value)
    /\ pc = "raised" => SequentialReport.status = ret.status

\* the second scene was finished before the first, and their records differ
C22_Witness ==
    /\ pc = "assessed"
    /\ Len(quality_report) = 2
    /\ quality_report[1][1] = IntKey(1)
    /\ quality_report[2][1] = IntKey(0)
    /\ quality_report[1][2] # quality_report[2][2]

-----------------------------------------------------------------------------
(* The two versions of vegetation_time_series *)

\* the vegetation pixel counts a call printed, scene by scene
CountsOf(r) == [k \in DOMAIN r.stdout |-> r.stdout[k].vegetation_pixel_count]

\* C23: on every dataset and pixel size, the version reading frequencies[4]
\* and the version reading frequencies[classes.index(4)] both complete or both
\* raise, and when they complete they report the same vegetation pixel count
\* and the same area for every scene.
C23_BothVersionsAgree ==
    pc \in {"extracted", "raised"} =>
        \A aggregated \in BOOLEAN :
            LET positional == vegetation_time_series(data_set, pixel_size)
                by_index == vegetation_time_series_step5(data_set, pixel_size, aggregated)
            IN  /\ positional.status = by_index.status
                /\ positional.status = "ok" =>
                       /\ CountsOf(positional) = CountsOf(by_index)
                       /\ positional.value.Vegetation_Surface_Area =
                              by_index.value.Vegetation_Surface_Area

\* the index-reading version ran on two scenes, one of them with a vegetation
\* pixel, at a pixel size that is not 0
C23_Witness ==
    /\ pc = "extracted"
    /\ pixel_size = 10
    /\ Len(ret.stdout) = 2
    /\ ret.value.Date[1] = strftime(0, FALSE)
    /\ ret.stdout[1].vegetation_pixel_count = 0
    /\ ret.stdout[2].vegetation_pixel_count = 1
    /\ ret.value.Vegetation_Surface_Area[2] = <<100, 1000000>>

-----------------------------------------------------------------------------
(* The NDVI extractor *)

\* NDVI of the pixel is defined and at least 0.3: nir + red is not 0 and
\* (nir - red) / (nir + red) >= 3/10
VegetationByNdvi(nir, red) ==
    \/ nir + red > 0 /\ 10 * (nir - red) >= 3 * (nir + red)
    \/ nir + red < 0 /\ 10 * (nir - red) <= 3 * (nir + red)

\* the pixels of time index i that VegetationByNdvi holds of
NdviVegetationPixels(i) ==
    {p \in (1..data_set.sizes.y) \X (1..data_set.sizes.x) :
        VegetationByNdvi(data_set.nir[i + 1][p[1]][p[2]], data_set.red[i + 1][p[1]][p[2]])}

\* C24: the vegetation pixel count of every scene is the number of its pixels
\* whose NDVI is defined and >= 0.3; a pixel with nir + red = 0 is not counted.
C24_NdviCountFromThreshold ==
    pc = "extracted" =>
        \A i \in 0..(data_set.sizes.time - 1) :
            ret.stdout[i + 1].vegetation_pixel_count = Cardinality(NdviVegetationPixels(i))

-----------------------------------------------------------------------------
(* A search that matches no scene *)

\* how the call of the stage ended
StatusOf(stage) == calls[CHOOSE i \in DOMAIN calls : calls[i].stage = stage].status

\* the catalog search returned, with an empty list of items
SearchFoundNothing ==
    /\ WasCalled("search_sentinel2")
    /\ StatusOf("search_sentinel2") = "ok"
    /\ ResultOf("search_sentinel2") = <<>>

\* C25: when the search has matched no scene, the call of load_sentinel2_xarray
\* raises the ValueError of its emptiness check, whatever the load
\* configuration holds, no dataset is loaded, and the run ends at the load
\* stage: clipping, assessment, filtering and what follows are never called.
C25_EmptySearchAbortsAtLoad ==
    SearchFoundNothing =>
        /\ pc \in {"load_stac_load_parameters", "load_sentinel2_xarray", "failed"}
        /\ WasCalled("load_sentinel2_xarray") =>
               /\ pc = "failed"
               /\ StatusOf("load_sentinel2_xarray") = "ValueError"
               /\ ret.msg = "No STAC items provided for loading"
               /\ Len(calls) = 4
        /\ \A i \in DOMAIN calls :
               calls[i].stage \in SeqToSet(SubSeq(STAGES, 1, 4))

\* a run with a valid load configuration that found no scene and ended in the
\* loader's ValueError
C25_Witness ==
    /\ SearchFoundNothing
    /\ pc = "failed"
    /\ Len(calls) = 4
    /\ calls[3].status = "ok"
    /\ calls[4].stage = "load_sentinel2_xarray"
    /\ calls[4].status = "ValueError"

-----------------------------------------------------------------------------
(* Records of the quality report whose key is no time index *)

\* the position in the report of the first record whose key is no time index
\* of the dataset, 0 when every key is one
FirstInvalidKey ==
    LET invalid == {k \in DOMAIN quality_report :
                       ~ValidKey(quality_report[k][1], data_set)}
    IN  IF invalid = {} THEN 0 ELSE CHOOSE k \in invalid : \A j \in invalid : k <= j

\* the loop gets as far as the k-th record: no log line before it fails
LoopReaches(k) ==
    \A j \in 1..(k - 1) : verbose => "valid_ratio" \in DOMAIN quality_report[j][2]

\* C26: a returned dataset holds only time indices that are keys of the report,
\* and a call whose loop meets a record with a key that is no time index of the
\* dataset raises there, whether or not the record meets the thresholds:
\* ValueError for an integer outside 0..T-1, TypeError for a key that is no
\* integer.
C26_InvalidKeyRaises ==
    /\ pc = "filtered" => {IntKey(i) : i \in KeptIndices} \subseteq ReportKeys
    /\ (FilterCalled /\ IsWellFormed(data_set) /\ FirstInvalidKey # 0
            /\ LoopReaches(FirstInvalidKey)) =>
           /\ pc = "raised"
           /\ IF quality_report[FirstInvalidKey][1].int
              THEN ret.status = "ValueError" /\ ret.msg = "scene_id is out of bounds"
              ELSE ret.status = "TypeError" /\ ret.msg = "scene_id must be an integer."

\* the second record has the key T and fails the thresholds, the first one is
\* kept: the call raises the ValueError of the scene lookup
C26_Witness ==
    /\ pc = "raised"
    /\ IsWellFormed(data_set)
    /\ Len(quality_report) = 2
    /\ quality_report[1][1] = IntKey(0)
    /\ MeetsBoth(quality_report[1][2], validity_threshold, coverage_threshold)
    /\ quality_report[2][1] = IntKey(data_set.sizes.time)
    /\ ~MeetsBoth(quality_report[2][2], validity_threshold, coverage_threshold)
    /\ ret.status = "ValueError"
    /\ ret.msg = "scene_id is out of bounds"

-----------------------------------------------------------------------------
(* Logging and thresholds of the filter *)

\* C27: the call with verbose=True and the call with verbose=False, on the
\* same dataset, report, thresholds and aggregation, return the same kept
\* indices or raise the same error.
C27_VerboseDoesNotChangeOutcome ==
    FilterCalled =>
        \A verb \in BOOLEAN :
            Outcome(filter_scenes_by_validity_ratio(data_set, quality_report,
                        validity_threshold, coverage_threshold, aggregation, verb))
                = Outcome(ret)

\* the time indices a call keeps: those of the dataset it returns, none when
\* it raises
Kept(r) == IF r.status = "ok" THEN SeqToSet(r.value.time) ELSE {}

\* what the filter keeps of the dataset and report of the call under other
\* thresholds
KeptUnder(vt, ct) ==
    Kept(filter_scenes_by_validity_ratio(data_set, quality_report, vt, ct,
                                         aggregation, verbose))

\* C28: with the report fixed, thresholds that are both at least those of the
\* call keep a subset of the scenes the call kept.
C28_MonotoneInThresholds ==
    FilterCalled =>
        \A vt \in Ratios, ct \in Ratios :
            (AtLeast(vt, validity_threshold) /\ AtLeast(ct, coverage_threshold)) =>
                KeptUnder(vt, ct) \subseteq Kept(ret)

\* a call that kept two scenes, of which higher thresholds keep one
C28_Witness ==
    /\ pc = "filtered"
    /\ Kept(ret) = {0, 1}
    /\ \E vt \in Ratios, ct \in Ratios :
          /\ AtLeast(vt, validity_threshold)
          /\ AtLeast(ct, coverage_threshold)
          /\ KeptUnder(vt, ct) = {0}

-----------------------------------------------------------------------------
(* The run from the clipped dataset to the time series *)

\* the extractor was called and returned its table
ExtractionReached ==
    /\ WasCalled("vegetation_time_series")
    /\ StatusOf("vegetation_time_series") = "ok"

\* the time indices of the clipped dataset whose record meets the two
\* thresholds of the filter configuration
PassingScenes ==
    {i \in 0..(clipped_data_set.sizes.time - 1) :
        MeetsBoth(quality_report[i + 1][2],
                  <<filter_config["validity_threshold"].n,
                    filter_config["validity_threshold"].d>>,
                  <<filter_config["coverage_threshold"].n,
                    filter_config["coverage_threshold"].d>>)}

\* the number of code-4 pixels of time index i of the clipped dataset
ClippedVegetation(i) ==
    LET grid == clipped_data_set.scl[i + 1]
    IN  Cardinality({p \in (DOMAIN grid) \X (1..clipped_data_set.sizes.x) :
                        grid[p[1]][p[2]] = 4})

-----------------------------------------------------------------------------
(* The configuration fields of the workflow object *)

\* the field holds None, or a configuration
IsNone(field) == ToString(field) = ToString(None)
IsSet(field) == ~IsNone(field)

\* the call of the stage was made and returned
Completed(stage) == WasCalled(stage) /\ StatusOf(stage) = "ok"

\* the fields in the states of a run
ConfigFieldsInOrder ==
    /\ calls = <<>> =>
           (IsNone(search_config) /\ IsNone(load_config) /\ IsNone(filter_config))
    /\ IsSet(filter_config) => IsSet(load_config)
    /\ IsSet(load_config) => IsSet(search_config)
    /\ IsSet(load_config) => Completed("search_sentinel2")
    /\ IsSet(filter_config) => Completed("assess_sentinel2_quality")
    /\ WasCalled("load_filter_parameters") =>
           /\ Completed("search_sentinel2")
           /\ Completed("load_sentinel2_xarray")
           /\ Completed("clip_dataset_to_bbox")
           /\ Completed("assess_sentinel2_quality")

\* a field that is set keeps its value in every step
ConfigFieldsKept ==
    /\ IsSet(search_config) => ToString(search_config') = ToString(search_config)
    /\ IsSet(load_config) => ToString(load_config') = ToString(load_config)
    /\ IsSet(filter_config) => ToString(filter_config') = ToString(filter_config)

\* C30: the three configuration fields are None after construction; in every
\* state filter_config set implies load_config set implies search_config set;
\* load_config is set only after the search has returned and filter_config only
\* after the assessment has returned, so that load_filter_parameters is called,
\* and can raise, only after search, load, clip and assessment; and no step
\* resets a field.
C30_ConfigFilledInOrder ==
    [](ConfigFieldsInOrder) /\ [][ConfigFieldsKept]_vars

\* a run that ended in the error of the filter configuration, after six calls
\* that returned
C30_Witness ==
    /\ pc = "failed"
    /\ Len(calls) = 7
    /\ calls[7].stage = "load_filter_parameters"
    /\ IsSet(search_config)
    /\ IsSet(load_config)
    /\ IsNone(filter_config)
    /\ Completed("assess_sentinel2_quality")

====
